---- MODULE Spec2Model ----
(***************************************************************************)
(* Model of the return / metrics engine of GetTheBear:                     *)
(*   analytics/fetching.py       fetch_portfolio_data, fetch_benchmark_data*)
(*   analytics/calculation.py    calculate_metrics                         *)
(*   analytics/csv_generator.py  generate_returns_csv                      *)
(*   analytics.py                the older calculate_metrics               *)
(*   portfolio_routes.py         analyze_portfolio, download_returns       *)
(*   models.py                   the portfolio_cache table                 *)
(*                                                                         *)
(* Numbers.  Prices are positive integers, requested weights are integer   *)
(* percentages, and every derived quantity (return, value, drawdown,       *)
(* normalized weight) is a rational <<n, d>> in lowest terms with d > 0.   *)
(* NaN is the pair <<0, 0>>, the infinities are <<1, 0>> and <<-1, 0>>.    *)
(* The variable precision selects the arithmetic of the tables: with       *)
(* precision 0 every operation is exact ("equal within 1e-9" in the prose  *)
(* is exact equality then); with precision p > 0 every operation of the    *)
(* fetch functions is rounded to a float of p significand bits, ties to    *)
(* even, as float64 does with 53 bits.  Square roots and fractional powers *)
(* of rationals are kept as terms (tuples tagged with a string).           *)
(*                                                                         *)
(* Dates.  A date is a day number; month m covers the days                 *)
(* (m-1)*DaysPerMonth+1 .. m*DaysPerMonth and is labelled, as pandas       *)
(* labels an 'ME' bin, by its last day.                                    *)
(*                                                                         *)
(* pandas.  Series.pct_change() is modelled with the forward fill it       *)
(* applies by default in pandas 2.2, the release that introduced the 'ME'  *)
(* alias the code uses.                                                    *)
(*                                                                         *)
(* Cache.  The table is a set of rows [id, data, created_at]; a key is the *)
(* text that generate_cache_key hashes.  Time is counted in half days.     *)
(* The backend decides whether created_at comes back with a time zone:     *)
(* SQLite stores naive datetimes, PostgreSQL keeps the zone.               *)
(***************************************************************************)
EXTENDS Integers, Sequences, FiniteSets, TLC

\* ------------------------------------------------------------------ bounds
MaxTickers == 2
MaxDay == 3
DaysPerMonth == 1
MaxRows == 5
PlainTickers == 3
\* calendar scale: the months of a model year
MonthsPerYear == 2
\* the longest table passed to generate_returns_csv
CsvRows == 3
\* floating-point scale: the bits of a float's significand (53 in a float64)
SignificandBits == 5

\* ------------------------------------------------------- exact rationals
Abs(x) == IF x < 0 THEN -x ELSE x

RECURSIVE GCD(_, _)
GCD(a, b) == IF b = 0 THEN a ELSE GCD(b, a % b)

NaN == <<0, 0>>
\* float infinities (a nonzero number divided by 0 in numpy arithmetic)
Inf == <<1, 0>>
NegInf == <<-1, 0>>
IsNaN(x) == x = NaN
IsInf(x) == x = Inf \/ x = NegInf

Rat(n, d) ==
  IF d = 0 THEN <<(IF n > 0 THEN 1 ELSE IF n < 0 THEN -1 ELSE 0), 0>>
  ELSE LET g == GCD(Abs(n), Abs(d))
           s == IF d < 0 THEN -1 ELSE 1
       IN <<(s * n) \div g, (s * d) \div g>>

Zero == <<0, 1>>
One == <<1, 1>>
RNeg(x) == <<-x[1], x[2]>>
RAdd(x, y) ==
  IF IsNaN(x) \/ IsNaN(y) THEN NaN
  ELSE IF IsInf(x) /\ IsInf(y) THEN (IF x = y THEN x ELSE NaN)
  ELSE Rat(x[1] * y[2] + y[1] * x[2], x[2] * y[2])
RSub(x, y) == RAdd(x, RNeg(y))
RMul(x, y) == IF IsNaN(x) \/ IsNaN(y) THEN NaN ELSE Rat(x[1] * y[1], x[2] * y[2])
\* float division x / y: 0/0 is NaN, a nonzero x over 0 is an infinity
RDiv(x, y) ==
  IF IsNaN(x) \/ IsNaN(y) THEN NaN
  ELSE IF IsInf(x) /\ ~IsInf(y) THEN (IF y[1] < 0 THEN RNeg(x) ELSE x)
  ELSE Rat(x[1] * y[2], x[2] * y[1])
\* comparisons are False when an operand is NaN, as in IEEE arithmetic
RLt(x, y) ==
  /\ ~IsNaN(x) /\ ~IsNaN(y)
  /\ IF IsInf(x) /\ IsInf(y) THEN x[1] < y[1] ELSE x[1] * y[2] < y[1] * x[2]
RLe(x, y) == ~IsNaN(x) /\ ~IsNaN(y) /\ (x = y \/ RLt(x, y))
RMax(x, y) == IF RLt(x, y) THEN y ELSE x
RAbs(x) == <<Abs(x[1]), x[2]>>

\* the integer nearest to n / d (n >= 0, d > 0), ties to the even one
RoundHalfEven(n, d) ==
  LET q == n \div d
      r == n % d
  IN IF 2 * r < d THEN q
     ELSE IF 2 * r > d THEN q + 1
     ELSE IF q % 2 = 0 THEN q ELSE q + 1

RECURSIVE RSum(_)
RSum(s) == IF s = <<>> THEN Zero ELSE RAdd(Head(s), RSum(Tail(s)))

RECURSIVE ISum(_)
ISum(s) == IF s = <<>> THEN 0 ELSE Head(s) + ISum(Tail(s))

\* ------------------------------------------------------- ticker strings
\* A ticker string is a sequence of one-character strings.
TickerA == <<"A">>
TickerB == <<"B">>
TickerALabel == <<"A", " ", "(", "x", ")">>
TickerOnlyLabel == <<" ", "(", "x", ")">>
RawTickers == {TickerA, TickerB, TickerALabel, TickerOnlyLabel}

\* str.split(" (")[0]: the part before the first occurrence of " ("
RECURSIVE SplitParenHead(_)
SplitParenHead(s) ==
  IF s = <<>> THEN <<>>
  ELSE IF Len(s) >= 2 /\ s[1] = " " /\ s[2] = "(" THEN <<>>
  ELSE <<Head(s)>> \o SplitParenHead(Tail(s))

RECURSIVE LStrip(_)
LStrip(s) == IF s # <<>> /\ Head(s) = " " THEN LStrip(Tail(s)) ELSE s

RECURSIVE RStrip(_)
RStrip(s) == IF s # <<>> /\ s[Len(s)] = " " THEN RStrip(SubSeq(s, 1, Len(s) - 1)) ELSE s

Strip(s) == RStrip(LStrip(s))

\* clean_ticker = ticker.split(" (")[0].strip()
CleanTicker(t) == Strip(SplitParenHead(t))

Symbols == {CleanTicker(t) : t \in RawTickers} \ {<<>>}

\* ------------------------------------------------------- upstream prices
\* What yf.download returns for a symbol: one Close per trading day, 0 for
\* a day without a row.  A series without any row is stock_data.empty.
Days == 1..MaxDay
Prices == {1, 2}
Series == [Days -> {0} \cup Prices]
ObsDays(series) == {d \in Days : series[d] # 0}
SeriesEmpty(series) == ObsDays(series) = {}
NoSeries == [d \in Days |-> 0]

\* Python's None
None == [none |-> TRUE]
Weights == {0, 30, 40}

VARIABLES
  handler,        \* the route handler being served, or None
  now,            \* datetime.now(timezone.utc), in days
  other,          \* a second call in progress, suspended; or None
  backend,        \* the database behind SQLALCHEMY_DATABASE_URI
  tickers,        \* argument: list of ticker strings
  weights,        \* argument: list of weights, parallel to tickers
  upstream,       \* the price source: symbol -> series
  raises,         \* raises[k]: the k-th download call raises an exception
  precision,      \* significand bits kept by the table arithmetic; 0: exact
  previous,       \* what the caller kept of its previous call, or None
  benchmark,      \* generate_returns_csv's df_benchmark and benchmark_ticker
  csv,            \* what generate_returns_csv returned
  use_cache,      \* bool(SQLALCHEMY_DATABASE_URI)
  db_fails,       \* the database operations that raise: subset of {"read", "write"}
  cache,          \* the rows of the table portfolio_cache
  pc,             \* position in the function being executed
  i,              \* index of the next ticker of the download loop
  all_data,       \* DataFrame of Close columns
  error_tickers,
  valid_tickers,
  locals,         \* locals of the processing section, kept for inspection
  result,         \* the returned tuple
  metrics         \* the panel returned by calculate_metrics

vars == <<handler, now, other, backend, tickers, weights, upstream, raises, precision, previous, benchmark, csv, use_cache, db_fails, cache, pc, i,
          all_data, error_tickers, valid_tickers, locals, result, metrics>>

\* ------------------------------------------------------ float arithmetic
\* The tables' values are floats: every operation on them returns the
\* nearest float to its exact result, ties to the even significand.  A float
\* here keeps `precision` bits of significand; with precision 0 the
\* arithmetic is idealised as exact.
ScaleRange == 12
Fl(x) ==
  IF precision = 0 \/ x[2] = 0 \/ x[1] = 0 THEN x
  ELSE LET a == Abs(x[1])
           d == x[2]
           sgn == IF x[1] < 0 THEN -1 ELSE 1
           lo == 2 ^ (precision - 1)
           \* the power of two that brings a / d into [lo, 2 * lo)
           s == CHOOSE k \in (0 - ScaleRange)..ScaleRange :
                  IF k >= 0
                  THEN lo * d <= a * (2 ^ k) /\ a * (2 ^ k) < 2 * lo * d
                  ELSE lo * d * (2 ^ (0 - k)) <= a /\ a < 2 * lo * d * (2 ^ (0 - k))
       IN IF s >= 0 THEN Rat(sgn * RoundHalfEven(a * (2 ^ s), d), 2 ^ s)
          ELSE Rat(sgn * RoundHalfEven(a, d * (2 ^ (0 - s))) * (2 ^ (0 - s)), 1)
FAdd(x, y) == Fl(RAdd(x, y))
FSub(x, y) == Fl(RSub(x, y))
FMul(x, y) == Fl(RMul(x, y))
FDiv(x, y) == Fl(RDiv(x, y))

\* the sum of a row, accumulated from the left
FSum(s) ==
  LET acc[k \in 0..Len(s)] == IF k = 0 THEN Zero ELSE FAdd(acc[k - 1], s[k])
  IN acc[Len(s)]

\* pd.DataFrame(): no index, no columns
EmptyFrame == [index |-> {}, cols |-> <<>>, vals |-> <<>>]

\* DataFrame.empty: some axis has length 0
FrameEmpty(df) == df.cols = <<>> \/ df.index = {}

ColPos(df, name) == CHOOSE k \in 1..Len(df.cols) : df.cols[k] = name
HasCol(df, name) == \E k \in 1..Len(df.cols) : df.cols[k] = name

\* all_data[name] = series.  The first column assigned to an empty frame
\* gives the frame its index; every later one is aligned to that index
\* (rows of the series on other days are dropped, missing days become NaN).
SetColumn(df, name, series) ==
  IF df.cols = <<>> /\ df.index = {}
  THEN [index |-> ObsDays(series), cols |-> <<name>>, vals |-> <<series>>]
  ELSE LET aligned == [d \in Days |-> IF d \in df.index THEN series[d] ELSE 0]
       IN IF HasCol(df, name)
          THEN [df EXCEPT !.vals[ColPos(df, name)] = aligned]
          ELSE [df EXCEPT !.cols = Append(@, name), !.vals = Append(@, aligned)]

\* all_data[valid_tickers]: one column per list element, repeated names included
SelectColumns(df, names) ==
  [index |-> df.index,
   cols |-> names,
   vals |-> [k \in 1..Len(names) |-> df.vals[ColPos(df, names[k])]]]

\* ------------------------------------------------------- pandas helpers
SetMin(S) == CHOOSE x \in S : \A y \in S : x <= y
SetMax(S) == CHOOSE x \in S : \A y \in S : x >= y

MonthOf(d) == ((d - 1) \div DaysPerMonth) + 1
MonthEnd(m) == m * DaysPerMonth

Num(p) == IF p = 0 THEN NaN ELSE <<p, 1>>

\* df.resample('ME').last(): one row per month from the month of the first
\* index day to the month of the last one, labelled by the month end; each
\* column takes its last non-NaN value inside the month, NaN if it has none.
\* A monthly frame is [index: dates, cols: names, vals: one sequence per column].
ResampleLast(df) ==
  LET m0 == MonthOf(SetMin(df.index))
      m1 == MonthOf(SetMax(df.index))
      n == m1 - m0 + 1
      cell(col, m) ==
        LET D == {d \in df.index : MonthOf(d) = m /\ col[d] # 0}
        IN IF D = {} THEN NaN ELSE Num(col[SetMax(D)])
  IN [index |-> [t \in 1..n |-> MonthEnd(m0 + t - 1)],
      cols |-> df.cols,
      vals |-> [k \in 1..Len(df.cols) |-> [t \in 1..n |-> cell(df.vals[k], m0 + t - 1)]]]

\* Series.ffill()
FFill(col) ==
  LET f[t \in 1..Len(col)] ==
        IF ~IsNaN(col[t]) THEN col[t] ELSE IF t = 1 THEN NaN ELSE f[t - 1]
  IN [t \in 1..Len(col) |-> f[t]]

\* Series.fillna(v)
FillNa(col, v) == [t \in 1..Len(col) |-> IF IsNaN(col[t]) THEN v ELSE col[t]]

\* Series.pct_change(): forward fill, then x[t] / x[t-1] - 1; the first row is NaN
PctChange(col) ==
  LET f == FFill(col)
  IN [t \in 1..Len(col) |-> IF t = 1 THEN NaN ELSE FSub(FDiv(f[t], f[t - 1]), One)]

\* the positions of a sequence 1..n that satisfy keep, in order
Positions(n, keep(_)) == SelectSeq([t \in 1..n |-> t], keep)

\* DataFrame.dropna(): drop every row that has a NaN in any column
DropNa(df) ==
  LET kept == Positions(Len(df.index),
                LAMBDA t : \A k \in 1..Len(df.cols) : ~IsNaN(df.vals[k][t]))
  IN [index |-> [u \in 1..Len(kept) |-> df.index[kept[u]]],
      cols |-> df.cols,
      vals |-> [k \in 1..Len(df.cols) |-> [u \in 1..Len(kept) |-> df.vals[k][kept[u]]]]]

\* df_monthly.pct_change().dropna()
MonthlyReturns(df_monthly) ==
  DropNa([df_monthly EXCEPT !.vals = [k \in 1..Len(df_monthly.cols) |-> PctChange(df_monthly.vals[k])]])

\* (df * w).sum(axis=1): column k times w[k], summed across each row
WeightedRowSum(df, w) ==
  [t \in 1..Len(df.index) |->
     FSum([k \in 1..Len(df.cols) |-> FMul(df.vals[k][t], w[k])])]

\* (1 + r).cumprod()
CumProd1p(r) ==
  LET c[t \in 1..Len(r)] ==
        IF t = 1 THEN FAdd(One, r[1]) ELSE FMul(c[t - 1], FAdd(One, r[t]))
  IN [t \in 1..Len(r) |-> c[t]]

\* Series.cummax()
CumMax(col) ==
  LET c[t \in 1..Len(col)] == IF t = 1 THEN col[1] ELSE RMax(c[t - 1], col[t])
  IN [t \in 1..Len(col) |-> c[t]]

\* series.reindex(index): the value the series has at each date, NaN where it has none
Reindex(dates, values, index) ==
  [t \in 1..Len(index) |->
     LET K == {u \in 1..Len(dates) : dates[u] = index[t]}
     IN IF K = {} THEN NaN ELSE values[SetMin(K)]]

\* variant: the drawdown measured from the first value instead of the running peak
DrawdownOf_FromFirst(pv) ==
  [t \in 1..Len(pv) |-> FSub(FDiv(pv[t], pv[1]), One)]

\* (Value / Value.cummax()) - 1
DrawdownOf(pv) ==
  LET peak == CumMax(pv)
  IN [t \in 1..Len(pv) |-> FSub(FDiv(pv[t], peak[t]), One)]

\* ------------------------------------------------ fetch_portfolio_data
\* A returned monthly table is [index, cols, prices, columns, pv, mr, dd]:
\* the row dates, the price columns (names and values), the names of the
\* value columns present, and the columns 'Portfolio Value', 'Monthly Return'
\* and 'Drawdown' (<<>> for a column that is not present).
ValueColumns == {"Portfolio Value", "Monthly Return", "Drawdown"}

InsertAt(seq, pos, x) == SubSeq(seq, 1, pos - 1) \o <<x>> \o SubSeq(seq, pos, Len(seq))

\* original_ticker_map.get(vt, 0), the map being
\* {clean(t): w for t, w in zip(tickers, weights)}: a repeated key keeps its last weight
OriginalTickerMapGet(tks, wts, vt) ==
  LET n == IF Len(tks) < Len(wts) THEN Len(tks) ELSE Len(wts)
      K == {k \in 1..n : CleanTicker(tks[k]) = vt}
  IN IF K = {} THEN 0 ELSE wts[SetMax(K)]

\* [w / total if total > 0 else 0 for w in ws], ws integers
NormalizeWeights(ws) ==
  LET total == ISum(ws)
  IN [k \in 1..Len(ws) |-> IF total > 0 THEN Fl(Rat(ws[k], total)) ELSE Zero]

\* the same comprehension applied to weights that are already fractions
RenormalizeWeights(ws) ==
  LET total == FSum(ws)
  IN [k \in 1..Len(ws) |-> IF RLt(Zero, total) THEN FDiv(ws[k], total) ELSE Zero]

\* DataFrame.first_valid_index() of df_monthly with its two new columns:
\* the first row with a non-NaN cell, 0 when there is none
FirstValidRow(df, pv, mr) ==
  LET V == {t \in 1..Len(df.index) :
              \/ \E k \in 1..Len(df.cols) : ~IsNaN(df.vals[k][t])
              \/ ~IsNaN(pv[t])
              \/ ~IsNaN(mr[t])}
  IN IF V = {} THEN 0 ELSE SetMin(V)

\* lines 119-137: attach Portfolio Value and Monthly Return to the monthly
\* prices, prepend the initial row, fill, recompute the return, add Drawdown
PortfolioTable(df_monthly, rets, portfolio_monthly_returns) ==
  LET cum == CumProd1p(portfolio_monthly_returns)
      pv0 == Reindex(rets.index, cum, df_monthly.index)
      mr0 == Reindex(rets.index, portfolio_monthly_returns, df_monthly.index)
      t0 == FirstValidRow(df_monthly, pv0, mr0)
      d0 == df_monthly.index[t0] - 1
      \* pd.concat([initial_row, df_monthly]).sort_index()
      pos == Cardinality({t \in 1..Len(df_monthly.index) : df_monthly.index[t] < d0}) + 1
      index1 == IF t0 = 0 THEN df_monthly.index ELSE InsertAt(df_monthly.index, pos, d0)
      prices1 == [k \in 1..Len(df_monthly.cols) |->
                    IF t0 = 0 THEN df_monthly.vals[k] ELSE InsertAt(df_monthly.vals[k], pos, NaN)]
      pv1 == IF t0 = 0 THEN pv0 ELSE InsertAt(pv0, pos, One)
      pv == FillNa(FFill(pv1), One)
      mr == FillNa(PctChange(pv), Zero)
  IN [index |-> index1, cols |-> df_monthly.cols, prices |-> prices1,
      columns |-> ValueColumns, pv |-> pv, mr |-> mr, dd |-> DrawdownOf(pv)]

\* DataFrame.corr(): the Pearson coefficient of two columns over the rows of
\* the frame.  It is NaN when a column has fewer than 2 rows or no spread
\* (the divisor is 0).  A coefficient that is not 0, 1 or -1 is kept as the
\* term <<"corr" or "-corr", n, d>>: the signed square root of n / d.
Pearson(x, y) ==
  LET n == Len(x)
      dev(c) == LET mean == RDiv(RSum(c), <<n, 1>>)
                IN [t \in 1..n |-> RSub(c[t], mean)]
      ss(c, e) == RSum([t \in 1..n |-> RMul(dev(c)[t], dev(e)[t])])
      sxx == ss(x, x)
      syy == ss(y, y)
      sxy == ss(x, y)
      \* the square of the coefficient, sxy^2 / (sxx * syy)
      q == RMul(RDiv(sxy, sxx), RDiv(sxy, syy))
  IN IF n < 2 \/ sxx = Zero \/ syy = Zero THEN NaN
     ELSE IF sxy = Zero THEN Zero
     ELSE IF q = One THEN (IF sxy[1] > 0 THEN One ELSE RNeg(One))
     ELSE <<(IF sxy[1] > 0 THEN "corr" ELSE "-corr"), q[1], q[2]>>

\* .round(4)
Round4(x) ==
  IF Len(x) = 2
  THEN (IF x[2] = 0 THEN x
        ELSE Rat((IF x[1] < 0 THEN -1 ELSE 1) * RoundHalfEven(Abs(x[1]) * 10000, x[2]), 10000))
  ELSE <<"round4", x[1], x[2], x[3]>>

\* lines 140-144: df_monthly_returns.corr() as ticker list and rounded matrix,
\* None when the matrix is empty (no column)
CorrelationData(rets) ==
  IF rets.cols = <<>> THEN None
  ELSE [tickers |-> rets.cols,
        matrix |-> [j \in 1..Len(rets.cols) |->
                      [k \in 1..Len(rets.cols) |->
                         Round4(Pearson(rets.vals[j], rets.vals[k]))]]]

\* ------------------------------------------------------- the cached JSON
\* DataFrame.to_json(orient='table') writes a float with double_precision
\* decimals, 10 by default, and null for NaN and the infinities.  A value
\* with no more decimals than that is written as it is; any other is written
\* as its rounding to 10 decimals, a number different from the value.
JsonDecimals == 10

RECURSIVE StripFactor(_, _, _)
StripFactor(d, p, k) ==
  IF k = 0 \/ d % p # 0 THEN d ELSE StripFactor(d \div p, p, k - 1)

JsonFloat(x) ==
  IF x[2] = 0 THEN NaN
  ELSE IF StripFactor(StripFactor(x[2], 2, JsonDecimals), 5, JsonDecimals) = 1 THEN x
  ELSE <<"round10", x[1], x[2]>>

JsonColumn(col) == [t \in 1..Len(col) |-> JsonFloat(col[t])]

\* df.to_json(orient='table', date_format='iso')
ToJsonTable(df) ==
  [orient |-> "table",
   data |-> [df EXCEPT !.prices = [k \in 1..Len(df.prices) |-> JsonColumn(df.prices[k])],
                       !.pv = JsonColumn(df.pv),
                       !.mr = JsonColumn(df.mr),
                       !.dd = JsonColumn(df.dd)]]

\* pd.read_json(io.StringIO(json), orient='table'): the numbers as written
ReadJsonTable(json) == json.data

\* ------------------------------------------------------- the cache table
\* analytics/caching.py line 7: timedelta(days=1); the clock counts half days
CACHE_DURATION == 2

\* the characters of the ticker strings in code point order
CodePoints == <<" ", "(", ")", "A", "B", "x">>
Ord(c) == CHOOSE k \in 1..Len(CodePoints) : CodePoints[k] = c

\* s < t for Python strings
RECURSIVE StrLess(_, _)
StrLess(s, t) ==
  IF t = <<>> THEN FALSE
  ELSE IF s = <<>> THEN TRUE
  ELSE IF Head(s) # Head(t) THEN Ord(Head(s)) < Ord(Head(t))
  ELSE StrLess(Tail(s), Tail(t))

\* sorted(tickers)
RECURSIVE Sorted(_)
Sorted(tks) ==
  IF tks = <<>> THEN <<>>
  ELSE LET least == CHOOSE k \in 1..Len(tks) : \A j \in 1..Len(tks) : ~StrLess(tks[j], tks[k])
       IN <<tks[least]>> \o Sorted([j \in 1..(Len(tks) - 1) |-> IF j < least THEN tks[j] ELSE tks[j + 1]])

\* caching.py lines 10-15: the SHA-256 digest of "<prefix>:<params as JSON,
\* keys sorted>".  The digest is taken as free of collisions: a key is the
\* text that is hashed.
generate_cache_key(prefix, params) == [prefix |-> prefix, params |-> params]

\* fetching.py lines 29-30; start and end are the same for every request here
PortfolioKey(tks, wts) ==
  generate_cache_key("portfolio", [tickers |-> Sorted(tks), weights |-> wts])

\* fetching.py lines 176-177
BenchmarkKey(ticker) == generate_cache_key("benchmark", [ticker |-> ticker])

\* db.session.get(CacheEntry, cache_key): id is the primary key
SessionGet(key) ==
  IF \E row \in cache : row.id = key THEN CHOOSE row \in cache : row.id = key ELSE None

\* db.session.merge(CacheEntry(id=key, data=data)) and commit: a row with this
\* id takes the new data and keeps its created_at, otherwise a row is
\* inserted and created_at takes its default, the time of the insert
SessionMerge(key, data) ==
  LET row == SessionGet(key)
  IN IF row = None
     THEN cache \cup {[id |-> key, data |-> data, created_at |-> now]}
     ELSE (cache \ {row}) \cup {[row EXCEPT !.data = data]}

\* line 36: an aware datetime minus created_at.  SQLite keeps no offset and
\* hands created_at back naive, and the subtraction raises TypeError.
CacheAgeRaises == backend = "sqlite"
CacheAge(cache_entry) == now - cache_entry.created_at

\* line 37
CacheValid(cache_entry) == CacheAge(cache_entry) < CACHE_DURATION

\* lines 26-55
CacheRead ==
  /\ pc = "cache_read"
  /\ LET cache_entry == SessionGet(PortfolioKey(tickers, weights))
     IN IF ~use_cache
        THEN /\ pc' = "download"
             /\ UNCHANGED <<use_cache, cache, result>>
        ELSE IF "read" \in db_fails
        THEN /\ use_cache' = FALSE
             /\ pc' = "download"
             /\ UNCHANGED <<cache, result>>
        ELSE IF cache_entry = None
        THEN /\ pc' = "download"
             /\ UNCHANGED <<use_cache, cache, result>>
        ELSE IF CacheAgeRaises
        THEN /\ use_cache' = FALSE
             /\ pc' = "download"
             /\ UNCHANGED <<cache, result>>
        ELSE IF CacheValid(cache_entry)
        THEN /\ result' = [df |-> ReadJsonTable(cache_entry.data.df_monthly_json),
                           errors |-> cache_entry.data.errors,
                           correlation |-> cache_entry.data.correlation_json]
             /\ pc' = "returned"
             /\ UNCHANGED <<use_cache, cache>>
        ELSE IF "write" \in db_fails
        \* the commit of the delete raises, the rollback leaves the row
        THEN /\ use_cache' = FALSE
             /\ pc' = "download"
             /\ UNCHANGED <<cache, result>>
        ELSE /\ cache' = cache \ {cache_entry}
             /\ pc' = "download"
             /\ UNCHANGED <<use_cache, result>>
  /\ UNCHANGED <<handler, now, other, backend, tickers, weights, upstream, raises, precision, previous, benchmark, csv,
                 db_fails, i, all_data, error_tickers, valid_tickers, locals, metrics>>

\* lines 63-79: one iteration of the download loop
FetchTicker ==
  /\ pc = "download"
  /\ i <= Len(tickers)
  /\ LET ticker == tickers[i]
         clean_ticker == CleanTicker(ticker)
         stock_data == upstream[clean_ticker]
     IN IF clean_ticker = <<>>
        THEN /\ error_tickers' = Append(error_tickers, ticker)
             /\ UNCHANGED <<all_data, valid_tickers>>
        ELSE IF raises[i]
        THEN /\ error_tickers' = Append(error_tickers, ticker)
             /\ UNCHANGED <<all_data, valid_tickers>>
        ELSE IF SeriesEmpty(stock_data)
        THEN /\ error_tickers' = Append(error_tickers, ticker)
             /\ UNCHANGED <<all_data, valid_tickers>>
        ELSE /\ all_data' = SetColumn(all_data, clean_ticker, stock_data)
             /\ valid_tickers' = Append(valid_tickers, clean_ticker)
             /\ UNCHANGED error_tickers
  /\ i' = i + 1
  /\ UNCHANGED <<handler, now, other, backend, tickers, weights, upstream, raises, precision, previous, benchmark, csv, use_cache, db_fails, cache,
                 pc, locals, result, metrics>>

NoLocals == [valid_weights |-> <<>>, valid_weights_normalized |-> <<>>,
             price_columns |-> <<>>, df_monthly |-> None, df_monthly_returns |-> None,
             portfolio_monthly_returns |-> <<>>]

\* variant: the empty check does not return, the call goes on to the cache write
ReturnNoData_FallsThrough ==
  /\ pc = "download"
  /\ i > Len(tickers)
  /\ FrameEmpty(all_data)
  /\ result' = [df |-> None, errors |-> error_tickers, correlation |-> None]
  /\ pc' = "cache_write"
  /\ UNCHANGED <<handler, now, other, backend, tickers, weights, upstream, raises, precision, previous, benchmark, csv, use_cache, db_fails, cache, i,
                 all_data, error_tickers, valid_tickers, locals, metrics>>

\* lines 81-82: nothing was fetched
ReturnNoData ==
  /\ pc = "download"
  /\ i > Len(tickers)
  /\ FrameEmpty(all_data)
  /\ result' = [df |-> None, errors |-> error_tickers, correlation |-> None]
  /\ pc' = "returned"
  /\ UNCHANGED <<handler, now, other, backend, tickers, weights, upstream, raises, precision, previous, benchmark, csv, use_cache, db_fails, cache, i,
                 all_data, error_tickers, valid_tickers, locals, metrics>>

\* pd.concat([initial_row, df_monthly]) has to align the columns of its two
\* frames; pandas cannot reindex a frame whose column labels repeat and raises
\* InvalidIndexError ("Reindexing only valid with uniquely valued Index objects")
ConcatRaises(df_monthly) ==
  \E j, k \in 1..Len(df_monthly.cols) : j # k /\ df_monthly.cols[j] = df_monthly.cols[k]

\* lines 84-144: weights, monthly returns, value curve, drawdown, correlation
Process ==
  /\ pc = "download"
  /\ i > Len(tickers)
  /\ ~FrameEmpty(all_data)
  /\ LET valid_weights == [k \in 1..Len(valid_tickers) |->
                             OriginalTickerMapGet(tickers, weights, valid_tickers[k])]
         normalized == NormalizeWeights(valid_weights)
         selected == SelectColumns(all_data, valid_tickers)
         df_monthly == ResampleLast(selected)
         rets == MonthlyReturns(df_monthly)
         mismatch == Len(normalized) # Len(rets.cols)
         kept == Positions(Len(normalized), LAMBDA k : HasCol(rets, valid_tickers[k]))
         reconciled == RenormalizeWeights([u \in 1..Len(kept) |-> normalized[kept[u]]])
         applied == IF mismatch THEN reconciled ELSE normalized
         portfolio_monthly_returns == WeightedRowSum(rets, applied)
         computed == [valid_weights |-> valid_weights,
                      valid_weights_normalized |-> applied,
                      price_columns |-> selected.cols,
                      df_monthly |-> df_monthly,
                      df_monthly_returns |-> rets,
                      portfolio_monthly_returns |-> portfolio_monthly_returns]
     IN /\ all_data' = selected
        /\ IF FrameEmpty(selected) \/ (mismatch /\ Len(reconciled) # Len(rets.cols))
           THEN /\ result' = [df |-> None, errors |-> error_tickers, correlation |-> None]
                /\ pc' = "returned"
                /\ UNCHANGED locals
           ELSE IF ConcatRaises(df_monthly)
           THEN /\ result' = [raised |-> "InvalidIndexError"]
                /\ pc' = "raised"
                /\ locals' = computed
           ELSE /\ result' = [df |-> PortfolioTable(df_monthly, rets, portfolio_monthly_returns),
                              errors |-> error_tickers,
                              correlation |-> CorrelationData(rets)]
                /\ pc' = "cache_write"
                /\ locals' = computed
  /\ UNCHANGED <<handler, now, other, backend, tickers, weights, upstream, raises, precision, previous, benchmark, csv, use_cache, db_fails, cache, i,
                 error_tickers, valid_tickers, metrics>>

\* lines 146-163
CacheWrite ==
  /\ pc = "cache_write"
  /\ IF use_cache /\ "write" \notin db_fails
     THEN cache' = SessionMerge(PortfolioKey(tickers, weights),
                                [df_monthly_json |-> ToJsonTable(result.df),
                                 errors |-> result.errors,
                                 correlation_json |-> result.correlation])
     ELSE UNCHANGED cache
  /\ pc' = "returned"
  /\ UNCHANGED <<handler, now, other, backend, tickers, weights, upstream, raises, precision, previous, benchmark, csv, use_cache, db_fails, i, all_data,
                 error_tickers, valid_tickers, locals, result, metrics>>


\* ------------------------------------------------ fetch_benchmark_data
\* the ticker is passed to yfinance as given: only a bare symbol has data
Download(t) == IF t \in Symbols THEN upstream[t] ELSE NoSeries

\* lines 216-247: the benchmark's monthly table from its Close series
BenchmarkTable(stock_data) ==
  LET close == ResampleLast([index |-> ObsDays(stock_data), cols |-> <<"Close">>,
                             vals |-> <<stock_data>>])
      raw == close.vals[1]
      V == {t \in 1..Len(raw) : ~IsNaN(raw[t])}
      pv0 == IF V # {} THEN [t \in 1..Len(raw) |-> FDiv(raw[t], raw[SetMin(V)])]
             ELSE [t \in 1..Len(raw) |-> One]
      mr0 == PctChange(pv0)
      t0 == FirstValidRow([index |-> close.index, cols |-> <<>>, vals |-> <<>>], pv0, mr0)
      d0 == close.index[t0] - 1
      pos == Cardinality({t \in 1..Len(close.index) : close.index[t] < d0}) + 1
      index1 == IF t0 = 0 THEN close.index ELSE InsertAt(close.index, pos, d0)
      pv1 == IF t0 = 0 THEN pv0 ELSE InsertAt(pv0, pos, One)
      mr1 == IF t0 = 0 THEN mr0 ELSE InsertAt(mr0, pos, Zero)
      pv == FillNa(FFill(pv1), One)
  IN [index |-> index1, cols |-> <<>>, prices |-> <<>>,
      columns |-> ValueColumns, pv |-> pv, mr |-> FillNa(mr1, Zero), dd |-> DrawdownOf(pv)]

\* lines 173-197
BenchmarkCacheRead ==
  /\ pc = "b_cache_read"
  /\ LET cache_entry == SessionGet(BenchmarkKey(tickers[1]))
     IN IF ~use_cache
        THEN /\ pc' = "b_fetch"
             /\ UNCHANGED <<use_cache, cache, result>>
        ELSE IF "read" \in db_fails
        THEN /\ use_cache' = FALSE
             /\ pc' = "b_fetch"
             /\ UNCHANGED <<cache, result>>
        ELSE IF cache_entry = None
        THEN /\ pc' = "b_fetch"
             /\ UNCHANGED <<use_cache, cache, result>>
        ELSE IF CacheAgeRaises
        THEN /\ use_cache' = FALSE
             /\ pc' = "b_fetch"
             /\ UNCHANGED <<cache, result>>
        ELSE IF CacheValid(cache_entry)
        THEN /\ result' = [df |-> ReadJsonTable(cache_entry.data.df_json),
                           error |-> cache_entry.data.error]
             /\ pc' = "b_returned"
             /\ UNCHANGED <<use_cache, cache>>
        ELSE IF "write" \in db_fails
        THEN /\ use_cache' = FALSE
             /\ pc' = "b_fetch"
             /\ UNCHANGED <<cache, result>>
        ELSE /\ cache' = cache \ {cache_entry}
             /\ pc' = "b_fetch"
             /\ UNCHANGED <<use_cache, result>>
  /\ UNCHANGED <<handler, now, other, backend, tickers, weights, upstream, raises, precision, previous, benchmark, csv,
                 db_fails, i, all_data, error_tickers, valid_tickers, locals, metrics>>

\* lines 199-251: Ticker.history, the download fallback, the monthly table
BenchmarkFetch ==
  /\ pc = "b_fetch"
  /\ \E history \in {Download(tickers[1]), NoSeries} :
       LET ticker == tickers[1]
           stock_data == IF SeriesEmpty(history) THEN Download(ticker) ELSE history
       IN IF raises[1]
          THEN result' = [df |-> None,
                          error |-> [msg |-> "An error occurred while fetching benchmark data for ", ticker |-> ticker]]
          ELSE IF SeriesEmpty(stock_data)
          THEN result' = [df |-> None,
                          error |-> [msg |-> "No data found for benchmark ticker: ", ticker |-> ticker]]
          ELSE result' = [df |-> BenchmarkTable(stock_data), error |-> None]
  /\ pc' = "b_cache_write"
  /\ UNCHANGED <<handler, now, other, backend, tickers, weights, upstream, raises, precision, previous, benchmark, csv, use_cache, db_fails, cache, i,
                 all_data, error_tickers, valid_tickers, locals, metrics>>

\* DataFrame.empty for a monthly table
TableEmpty(df) == Len(df.index) = 0 \/ (df.columns = {} /\ df.cols = <<>>)

\* lines 256-259: data_to_cache
BenchmarkCacheData_ErrorText(df_benchmark) ==
  [df_json |-> ToJsonTable(df_benchmark),
   error |-> [msg |-> "No data found for benchmark ticker: ", ticker |-> <<>>]]
BenchmarkCacheData(df_benchmark) == [df_json |-> ToJsonTable(df_benchmark), error |-> None]

\* lines 253-272
BenchmarkCacheWrite ==
  /\ pc = "b_cache_write"
  /\ IF /\ use_cache
        /\ result.error = None
        /\ result.df # None
        /\ ~TableEmpty(result.df)
        /\ "write" \notin db_fails
     THEN cache' = SessionMerge(BenchmarkKey(tickers[1]), BenchmarkCacheData(result.df))
     ELSE UNCHANGED cache
  /\ pc' = "b_returned"
  /\ UNCHANGED <<handler, now, other, backend, tickers, weights, upstream, raises, precision, previous, benchmark, csv, use_cache, db_fails, i, all_data,
                 error_tickers, valid_tickers, locals, result, metrics>>

\* ---------------------------------------------- numbers in the metrics
\* the rolling window of calculation.py lines 122 and 125
RollingWindow == 12

\* DatetimeIndex.year on the model calendar
YearOf(d) == (MonthOf(d) - 1) \div MonthsPerYear

\* a number is a rational pair (NaN and the infinities included) or a term
IsRat(x) == Len(x) = 2

\* the square root of a non-negative rational: exact for 0, else a term
Sqrt(x) ==
  IF IsNaN(x) \/ RLt(x, Zero) THEN NaN
  ELSE IF IsInf(x) THEN Inf
  ELSE IF x = Zero THEN Zero
  ELSE <<"sqrt", x[1], x[2]>>

\* base ** exponent - 1 in float64 arithmetic, for a finite exponent > 0 that
\* is not an integer (365.25 / days never is): 1 ** e is 1, 0 ** e is 0,
\* a negative base gives NaN, any other base gives a term
PowMinusOne(base, exponent) ==
  IF IsNaN(base) THEN NaN
  ELSE IF base = One THEN Zero
  ELSE IF base = Zero THEN RNeg(One)
  ELSE IF IsInf(base) THEN Inf
  ELSE IF RLt(base, Zero) THEN NaN
  ELSE <<"pow-1", base[1], base[2], exponent[1], exponent[2]>>

\* a / b for a divisor b known to be > 0 (a rational or a sqrt term)
NDiv(a, b) ==
  IF a = NaN THEN NaN
  ELSE IF IsRat(a) /\ IsRat(b) THEN RDiv(a, b)
  ELSE IF b = Inf THEN Zero
  ELSE IF a = Zero THEN Zero
  ELSE <<"div", 1, a, b>>

\* x > 0 for a rational or a sqrt term (a sqrt term is never 0)
Positive(x) == IF IsRat(x) THEN RLt(Zero, x) ELSE TRUE

\* pandas reductions skip NaN
NonNaN(col) == SelectSeq(col, LAMBDA x : ~IsNaN(x))

\* Series.min() / Series.max(): NaN when no value is left
SeriesMin(col) ==
  LET v == NonNaN(col)
  IN IF v = <<>> THEN NaN
     ELSE v[CHOOSE k \in 1..Len(v) : \A j \in 1..Len(v) : RLe(v[k], v[j])]
SeriesMax(col) ==
  LET v == NonNaN(col)
  IN IF v = <<>> THEN NaN
     ELSE v[CHOOSE k \in 1..Len(v) : \A j \in 1..Len(v) : RLe(v[j], v[k])]

\* the sample variance behind Series.std() (ddof = 1): NaN under 2 values
Variance(col) ==
  LET v == NonNaN(col)
      n == Len(v)
      mean == RDiv(RSum(v), <<n, 1>>)
  IN IF n < 2 THEN NaN
     ELSE RDiv(RSum([k \in 1..n |-> RMul(RSub(v[k], mean), RSub(v[k], mean))]), <<n - 1, 1>>)

\* col.std() * math.sqrt(12)
AnnualizedStd(col) == Sqrt(RMul(<<12, 1>>, Variance(col)))

\* (1 + col).prod() - 1
RECURSIVE Prod1p(_)
Prod1p(col) == IF col = <<>> THEN One ELSE RMul(RAdd(One, Head(col)), Prod1p(Tail(col)))
CompoundedReturn(col) == RSub(Prod1p(NonNaN(col)), One)

\* Series.tail(n)
TailN(col, n) == IF Len(col) <= n THEN col ELSE SubSeq(col, Len(col) - n + 1, Len(col))

\* ---------------------------------------------------------- formatting
\* format(x, '.<places>f') for places 1 or 2
Fixed(x, places) ==
  IF IsNaN(x) THEN "nan"
  ELSE IF x = Inf THEN "inf"
  ELSE IF x = NegInf THEN "-inf"
  ELSE LET scale == IF places = 1 THEN 10 ELSE 100
           k == RoundHalfEven(Abs(x[1]) * scale, x[2])
           frac == k % scale
       IN (IF x[1] < 0 THEN "-" ELSE "")
            \o ToString(k \div scale) \o "."
            \o (IF places = 2 /\ frac < 10 THEN "0" ELSE "") \o ToString(frac)

\* f"{x:.2f}", f"{x:.1f}" and f"{x:.2%}"; a term keeps its expression
FormatFixed2(x) == IF IsRat(x) THEN Fixed(x, 2) ELSE ToString(x) \o ":.2f"
FormatFixed1(x) == IF IsRat(x) THEN Fixed(x, 1) ELSE ToString(x) \o ":.1f"
FormatPct2(x) ==
  IF IsRat(x) THEN Fixed(RMul(x, <<100, 1>>), 2) \o "%" ELSE ToString(x) \o ":.2%"

\* f"{x:...}" if not pd.isna(x) else 'N/A'
GuardedPct2(x) == IF IsNaN(x) THEN "N/A" ELSE FormatPct2(x)
GuardedFixed2(x) == IF IsNaN(x) THEN "N/A" ELSE FormatFixed2(x)

\* ------------------------------------------------------ calculate_metrics
IMax(a, b) == IF a > b THEN a ELSE b

\* (its 'years' is the integer 0, written "0" here, and its annual_returns the empty dict)
NotAvailablePanel ==
  [cagr |-> "N/A", volatility |-> "N/A", sharpe_ratio |-> "N/A", max_drawdown |-> "N/A",
   best_month |-> "N/A", worst_month |-> "N/A", total_return |-> "N/A", years |-> "0",
   sortino_ratio |-> "N/A", calmar_ratio |-> "N/A", max_drawdown_duration |-> "N/A",
   rolling_volatility |-> "N/A", rolling_return |-> "N/A", annual_returns |-> <<>>]

\* df_monthly is None or df_monthly.empty or len(df_monthly) < 2
TooShort(df) == df = None \/ Len(df.index) < 2

\* monthly_returns = df_monthly['Monthly Return'].iloc[1:]
MonthlyReturnsUsed(df) == Tail(df.mr)

\* variant: the scan without the check for a run still open at the last row
DrawdownDurationScan_NoFinalCheck(dd) ==
  LET step[t \in 0..Len(dd)] ==
        IF t = 0 THEN [max_drawdown_duration |-> 0, current_duration |-> 0, in_drawdown |-> FALSE]
        ELSE LET s == step[t - 1]
             IN IF ~IsNaN(dd[t]) /\ RLt(dd[t], Zero)
                THEN IF ~s.in_drawdown
                     THEN [s EXCEPT !.in_drawdown = TRUE, !.current_duration = 1]
                     ELSE [s EXCEPT !.current_duration = @ + 1]
                ELSE IF s.in_drawdown
                     THEN [max_drawdown_duration |-> IMax(s.max_drawdown_duration, s.current_duration),
                           current_duration |-> 0, in_drawdown |-> FALSE]
                     ELSE s
  IN step[Len(dd)].max_drawdown_duration

\* calculation.py lines 94-117: the scan over the Drawdown column
DrawdownDurationScan(dd) ==
  LET step[t \in 0..Len(dd)] ==
        IF t = 0 THEN [max_drawdown_duration |-> 0, current_duration |-> 0, in_drawdown |-> FALSE]
        ELSE LET s == step[t - 1]
             IN IF ~IsNaN(dd[t]) /\ RLt(dd[t], Zero)
                THEN IF ~s.in_drawdown
                     THEN [s EXCEPT !.in_drawdown = TRUE, !.current_duration = 1]
                     ELSE [s EXCEPT !.current_duration = @ + 1]
                ELSE IF s.in_drawdown
                     THEN [max_drawdown_duration |-> IMax(s.max_drawdown_duration, s.current_duration),
                           current_duration |-> 0, in_drawdown |-> FALSE]
                     ELSE s
      end == step[Len(dd)]
  IN IF end.in_drawdown
     THEN IMax(end.max_drawdown_duration, end.current_duration)
     ELSE end.max_drawdown_duration

\* analytics.py lines 347-361: the older scan
LegacyDrawdownDurationScan(dd) ==
  LET step[t \in 0..Len(dd)] ==
        IF t = 0 THEN [max_drawdown_duration |-> 0, current_duration |-> 0, in_drawdown |-> FALSE]
        ELSE LET s == step[t - 1]
             IN IF RLt(dd[t], Zero)
                THEN [s EXCEPT !.in_drawdown = TRUE,
                               !.current_duration = (IF s.in_drawdown THEN @ ELSE 0) + 1]
                ELSE IF s.in_drawdown
                     THEN [s EXCEPT !.in_drawdown = FALSE,
                                    !.max_drawdown_duration = IMax(@, s.current_duration)]
                     ELSE s
      end == step[Len(dd)]
  IN IF end.in_drawdown
     THEN IMax(end.max_drawdown_duration, end.current_duration)
     ELSE end.max_drawdown_duration

\* f"{n} months" if n > 0 else "0 months"
DurationStr(n) == IF n > 0 THEN ToString(n) \o " months" ELSE "0 months"

\* lines 45-48 and 70-74: a missing Monthly Return or Drawdown column is
\* computed from Portfolio Value and written into the caller's table
WithComputedColumns(df) ==
  LET mr == IF "Monthly Return" \notin df.columns THEN FillNa(PctChange(df.pv), Zero) ELSE df.mr
      dd == IF "Drawdown" \notin df.columns THEN DrawdownOf(df.pv) ELSE df.dd
  IN [df EXCEPT !.columns = ValueColumns, !.mr = mr, !.dd = dd]

\* lines 22-33: the length of the table in years
Years(df) ==
  LET start_date == SetMin({df.index[t] : t \in 1..Len(df.index)})
      end_date == SetMax({df.index[t] : t \in 1..Len(df.index)})
      years == IF start_date = end_date THEN Zero
               ELSE Rat(4 * (end_date - start_date), 1461)
  IN IF RLe(years, Zero) \/ Len(df.index) <= 1 THEN Zero ELSE years

\* lines 36-38
TotalReturn(df) ==
  LET start_value == df.pv[1]
      end_value == df.pv[Len(df.pv)]
  IN IF start_value # Zero THEN RSub(RDiv(end_value, start_value), One) ELSE Zero

\* line 41
Cagr(total_return, years) ==
  IF RLt(Zero, years) THEN PowMinusOne(RAdd(One, total_return), RDiv(One, years)) ELSE Zero

\* lines 64, 87: x.std() * math.sqrt(12) if not x.empty else 0
AnnualizedStdOrZero(col) == IF col # <<>> THEN AnnualizedStd(col) ELSE Zero

\* variant: the ratio without its guard
RatioOrZero_Unguarded(cagr, d) == NDiv(cagr, d)

\* lines 67, 88: (cagr / d) if d > 0 else 0
RatioOrZero(cagr, d) == IF ~IsNaN(d) /\ Positive(d) THEN NDiv(cagr, d) ELSE Zero

\* line 86: monthly_returns[monthly_returns < 0]
DownsideReturns(monthly_returns) == SelectSeq(monthly_returns, LAMBDA x : RLt(x, Zero))

\* lines 122, 125: the rolling figures, the integer 0 under RollingWindow returns
RollingVolatility(monthly_returns) ==
  IF Len(monthly_returns) >= RollingWindow
  THEN AnnualizedStd(TailN(monthly_returns, RollingWindow)) ELSE Zero
RollingReturn(monthly_returns) ==
  IF Len(monthly_returns) >= RollingWindow
  THEN CompoundedReturn(TailN(monthly_returns, RollingWindow)) ELSE Zero

\* the rows of a calendar year among the rows after the first
YearRows(df, year) == {t \in 2..Len(df.index) : YearOf(df.index[t]) = year}
YearsPresent(df) == {YearOf(df.index[t]) : t \in 2..Len(df.index)}

\* variant: the year's start value taken from the year's own first row
AnnualReturns_FromFirstRow(df) ==
  [year \in YearsPresent(df) |->
     LET year_start_value == df.pv[SetMin(YearRows(df, year))]
         year_end_value == df.pv[SetMax(YearRows(df, year))]
     IN IF year_start_value # Zero /\ ~IsNaN(year_end_value)
        THEN FormatPct2(RSub(RDiv(year_end_value, year_start_value), One))
        ELSE "N/A"]

\* lines 128-154: per year, the value at the year's last row over the value of
\* the row before the year's first row: df_monthly.loc[:year_start_index] is
\* the rows dated up to the year's first date, iloc[-2] the one before its
\* last (1.0 on IndexError, when there is no such row)
AnnualReturns(df) ==
  [year \in YearsPresent(df) |->
     LET year_start_index == SetMin({df.index[t] : t \in YearRows(df, year)})
         upto == {t \in 1..Len(df.index) : df.index[t] <= year_start_index}
         year_start_value == IF Cardinality(upto) >= 2
                             THEN df.pv[SetMax(upto \ {SetMax(upto)})] ELSE One
         year_end_value == df.pv[SetMax(YearRows(df, year))]
     IN IF year_start_value # Zero /\ ~IsNaN(year_end_value)
        THEN FormatPct2(RSub(RDiv(year_end_value, year_start_value), One))
        ELSE "N/A"]

\* lines 61-172 on a table with its three value columns; had_drawdown tells
\* whether the caller's table came with a Drawdown column (line 79) or the
\* column was computed (line 75)
MetricsPanel(df, had_drawdown) ==
  LET years == Years(df)
      total_return == TotalReturn(df)
      cagr == Cagr(total_return, years)
      monthly_returns == MonthlyReturnsUsed(df)
      volatility == AnnualizedStdOrZero(monthly_returns)
      dd_min == SeriesMin(df.dd)
      max_drawdown == IF had_drawdown /\ IsNaN(dd_min) THEN Zero ELSE dd_min
      downside_deviation == AnnualizedStdOrZero(DownsideReturns(monthly_returns))
  IN [cagr |-> GuardedPct2(cagr),
      volatility |-> GuardedPct2(volatility),
      sharpe_ratio |-> GuardedFixed2(RatioOrZero(cagr, volatility)),
      max_drawdown |-> GuardedPct2(max_drawdown),
      best_month |-> GuardedPct2(SeriesMax(monthly_returns)),
      worst_month |-> GuardedPct2(SeriesMin(monthly_returns)),
      total_return |-> GuardedPct2(total_return),
      years |-> FormatFixed1(years),
      sortino_ratio |-> GuardedFixed2(RatioOrZero(cagr, downside_deviation)),
      calmar_ratio |-> GuardedFixed2(IF RLt(max_drawdown, Zero)
                                       THEN NDiv(cagr, RAbs(max_drawdown)) ELSE Zero),
      max_drawdown_duration |-> DurationStr(DrawdownDurationScan(df.dd)),
      rolling_volatility |-> GuardedPct2(RollingVolatility(monthly_returns)),
      rolling_return |-> GuardedPct2(RollingReturn(monthly_returns)),
      annual_returns |-> AnnualReturns(df)]

\* analytics/calculation.py calculate_metrics, applied to the table in result.df
CalculateMetrics ==
  /\ pc = "metrics"
  /\ IF TooShort(result.df)
     THEN /\ metrics' = [panel |-> NotAvailablePanel, monthly_returns |-> <<>>]
          /\ UNCHANGED result
     ELSE IF "Portfolio Value" \notin result.df.columns
     \* line 36: df_monthly['Portfolio Value'] of a table without that column
     THEN /\ metrics' = [raised |-> "KeyError"]
          /\ UNCHANGED result
     ELSE LET df == WithComputedColumns(result.df)
          IN /\ metrics' = [panel |-> MetricsPanel(df, "Drawdown" \in result.df.columns),
                            monthly_returns |-> MonthlyReturnsUsed(df)]
             /\ result' = [result EXCEPT !.df = df]
  /\ pc' = "metrics_done"
  /\ UNCHANGED <<handler, now, other, backend, tickers, weights, upstream, raises, precision, previous, benchmark, csv, use_cache, db_fails, cache, i,
                 all_data, error_tickers, valid_tickers, locals>>

\* analytics.py lines 372-381: per year, the year's last value over the year's
\* first value taken back by that row's return
LegacyAnnualReturns(df) ==
  [year \in YearsPresent(df) |->
     LET first == SetMin(YearRows(df, year))
         year_start_value == RDiv(df.pv[first], RAdd(One, df.mr[first]))
         year_end_value == df.pv[SetMax(YearRows(df, year))]
     IN FormatPct2(RSub(RDiv(year_end_value, year_start_value), One))]

\* analytics.py lines 300-398: the same figures without the guards
LegacyMetricsPanel(df) ==
  LET end_date == SetMax({df.index[t] : t \in 1..Len(df.index)})
      start_date == SetMin({df.index[t] : t \in 1..Len(df.index)})
      years0 == Rat(4 * (end_date - start_date), 1461)
      years == IF RLe(years0, Zero) \/ Len(df.index) <= 1 THEN Zero ELSE years0
      total_return == RSub(RDiv(df.pv[Len(df.pv)], df.pv[1]), One)
      cagr == Cagr(total_return, years)
      monthly_returns == MonthlyReturnsUsed(df)
      volatility == AnnualizedStdOrZero(monthly_returns)
      max_drawdown == SeriesMin(df.dd)
      downside_deviation == AnnualizedStdOrZero(DownsideReturns(monthly_returns))
  IN [cagr |-> FormatPct2(cagr),
      volatility |-> FormatPct2(volatility),
      sharpe_ratio |-> FormatFixed2(RatioOrZero(cagr, volatility)),
      max_drawdown |-> FormatPct2(max_drawdown),
      best_month |-> FormatPct2(SeriesMax(monthly_returns)),
      worst_month |-> FormatPct2(SeriesMin(monthly_returns)),
      total_return |-> FormatPct2(total_return),
      years |-> FormatFixed1(years),
      sortino_ratio |-> FormatFixed2(RatioOrZero(cagr, downside_deviation)),
      calmar_ratio |-> FormatFixed2(IF RLt(max_drawdown, Zero)
                                      THEN NDiv(cagr, RAbs(max_drawdown)) ELSE Zero),
      max_drawdown_duration |-> DurationStr(LegacyDrawdownDurationScan(df.dd)),
      rolling_volatility |-> FormatPct2(RollingVolatility(monthly_returns)),
      rolling_return |-> FormatPct2(RollingReturn(monthly_returns)),
      annual_returns |-> LegacyAnnualReturns(df)]

\* analytics.py calculate_metrics: it reads Monthly Return and Drawdown without
\* checking for them, and adds a Year column to the caller's table
LegacyCalculateMetrics ==
  /\ pc = "metrics"
  /\ IF TooShort(result.df)
     THEN /\ metrics' = [panel |-> NotAvailablePanel, monthly_returns |-> <<>>]
          /\ UNCHANGED result
     ELSE IF ~({"Monthly Return", "Drawdown"} \subseteq result.df.columns)
     THEN /\ metrics' = [raised |-> "KeyError"]
          /\ UNCHANGED result
     ELSE /\ metrics' = [panel |-> LegacyMetricsPanel(result.df),
                         monthly_returns |-> MonthlyReturnsUsed(result.df)]
          /\ result' = [result EXCEPT !.df.columns = @ \cup {"Year"}]
  /\ pc' = "legacy_metrics_done"
  /\ UNCHANGED <<handler, now, other, backend, tickers, weights, upstream, raises, precision, previous, benchmark, csv, use_cache, db_fails, cache, i,
                 all_data, error_tickers, valid_tickers, locals>>

\* ------------------------------------------------- generate_returns_csv
\* index.month
MonthOfYear(d) == ((MonthOf(d) - 1) % MonthsPerYear) + 1

\* csv_generator.py lines 13-15: a missing Monthly Return column is computed
\* from Portfolio Value and written into the caller's table
WithMonthlyReturn(df) ==
  IF "Monthly Return" \notin df.columns /\ "Portfolio Value" \in df.columns
  THEN [df EXCEPT !.columns = @ \cup {"Monthly Return"}, !.mr = PctChange(df.pv)]
  ELSE df

\* variant: without the test for an empty benchmark table
HasBenchmarkColumn_IgnoresEmpty(df_benchmark) ==
  /\ df_benchmark # None
  /\ "Monthly Return" \in df_benchmark.columns

\* lines 42-48: the benchmark column is there when a non-empty benchmark
\* table with a Monthly Return column is supplied
HasBenchmarkColumn(df_benchmark) ==
  /\ df_benchmark # None
  /\ ~TableEmpty(df_benchmark)
  /\ "Monthly Return" \in df_benchmark.columns

\* lines 57-71: calculate_annual_return, in percent; NaN for a product that
\* is NaN or infinite
CalculateAnnualReturn(series) ==
  LET compounded_value == Prod1p(FillNa(series, Zero))
  IN IF series = <<>> THEN Zero
     ELSE IF IsNaN(compounded_value) \/ IsInf(compounded_value) THEN NaN
     ELSE RMul(RSub(compounded_value, One), <<100, 1>>)

\* value if not pd.isna(value) else 'N/A': an annual cell is the float
\* to_csv writes, or the text N/A
AnnualCell(x) == IF IsNaN(x) THEN [text |-> "N/A"] ELSE [float |-> x]

\* lines 95-101: f"{x:.2f}" of the return times 100, 'N/A' for NaN
MonthlyCell(x) ==
  LET pct == RMul(x, <<100, 1>>)
  IN IF IsNaN(pct) THEN "N/A" ELSE FormatFixed2(pct)

\* variant: the portfolio's returns taken as they are
PortfolioReturnColumn_Unfilled(df) == df.mr

\* line 21: df_portfolio["Monthly Return"].fillna(0)
PortfolioReturnColumn(df) == FillNa(df.mr, Zero)

\* lines 43-47: df_benchmark["Monthly Return"].reindex(index).fillna(0)
BenchmarkReturnColumn(df, df_benchmark) ==
  FillNa(Reindex(df_benchmark.index, df_benchmark.mr, df.index), Zero)

\* lines 19-53 and 93-104: the monthly block, its header and its rows (a row
\* is the sequence of its cells)
MonthlyBlock(df, df_benchmark) ==
  LET with_benchmark == HasBenchmarkColumn(df_benchmark)
      portfolio_return == PortfolioReturnColumn(df)
      benchmark_return == IF with_benchmark THEN BenchmarkReturnColumn(df, df_benchmark)
                          ELSE <<>>
  IN [title |-> "MONTHLY RETURNS",
      header |-> <<"Date", "Year", "Month", "Portfolio_Return">>
                   \o (IF with_benchmark THEN <<"Benchmark_Return">> ELSE <<>>),
      rows |-> [t \in 1..Len(df.index) |->
                  <<df.index[t], YearOf(df.index[t]), MonthOfYear(df.index[t]),
                    MonthlyCell(portfolio_return[t])>>
                    \o (IF with_benchmark THEN <<MonthlyCell(benchmark_return[t])>>
                        ELSE <<>>)]]

\* lines 74-120: the annual block, one row per year in ascending order
AnnualBlock(df, df_benchmark) ==
  LET n == Len(df.index)
      with_benchmark == HasBenchmarkColumn(df_benchmark)
      portfolio_return == PortfolioReturnColumn(df)
      benchmark_return == IF with_benchmark THEN BenchmarkReturnColumn(df, df_benchmark)
                          ELSE <<>>
      years == {YearOf(df.index[t]) : t \in 1..n}
      ordered == [u \in 1..Cardinality(years) |->
                    CHOOSE y \in years : Cardinality({z \in years : z < y}) = u - 1]
      group(col, y) == LET kept == Positions(n, LAMBDA t : YearOf(df.index[t]) = y)
                       IN [u \in 1..Len(kept) |-> col[kept[u]]]
  IN [title |-> "ANNUAL RETURNS",
      header |-> <<"Year", "Portfolio_Ann_Return">>
                   \o (IF with_benchmark THEN <<"Benchmark_Ann_Return">> ELSE <<>>),
      rows |-> [u \in 1..Len(ordered) |->
                  <<[year |-> ordered[u]],
                    AnnualCell(CalculateAnnualReturn(group(portfolio_return, ordered[u])))>>
                    \o (IF with_benchmark
                        THEN <<AnnualCell(CalculateAnnualReturn(
                                            group(benchmark_return, ordered[u])))>>
                        ELSE <<>>)]]

\* variant: the annual block written first
ReturnsCsv_AnnualFirst(df, df_benchmark, benchmark_ticker) ==
  [buffer |-> <<AnnualBlock(df, df_benchmark), MonthlyBlock(df, df_benchmark)>>,
   filename |-> <<"portfolio_vs_">> \o benchmark_ticker \o <<"_returns.csv">>]

\* lines 122-137: the buffer, in the order of its writes, and the file name
ReturnsCsv(df, df_benchmark, benchmark_ticker) ==
  [buffer |-> <<MonthlyBlock(df, df_benchmark), AnnualBlock(df, df_benchmark)>>,
   filename |-> <<"portfolio_vs_">> \o benchmark_ticker \o <<"_returns.csv">>]

\* analytics/csv_generator.py generate_returns_csv, applied to the table in
\* result.df and the benchmark arguments
GenerateReturnsCsv ==
  /\ pc = "csv"
  /\ IF result.df = None \/ TableEmpty(result.df)
     THEN /\ csv' = [returned |-> None]
          /\ UNCHANGED result
     ELSE IF {"Monthly Return", "Portfolio Value"} \cap result.df.columns = {}
     THEN /\ csv' = [returned |-> None]
          /\ UNCHANGED result
     ELSE LET df == WithMonthlyReturn(result.df)
          IN /\ csv' = [returned |-> ReturnsCsv(df, benchmark.df, benchmark.ticker)]
             /\ result' = [result EXCEPT !.df = df]
  /\ pc' = "csv_done"
  /\ UNCHANGED <<handler, now, other, backend, tickers, weights, upstream, raises, precision, previous, benchmark,
                 use_cache, db_fails, cache, i, all_data, error_tickers, valid_tickers,
                 locals, metrics>>

\* ------------------------------------------------------------ callers
\* portfolio_routes.py lines 224 and 236: the caller hands the table a fetch
\* returned to calculate_metrics
PassToMetrics ==
  /\ pc \in {"returned", "b_returned"}
  /\ pc' = "metrics"
  /\ UNCHANGED <<handler, now, other, backend, tickers, weights, upstream, raises, precision, previous, benchmark, csv, use_cache,
                 db_fails, cache, i, all_data, error_tickers, valid_tickers, locals,
                 result, metrics>>

\* the caller keeps the table and the panel of the portfolio of one ticker and
\* calls fetch_benchmark_data for that ticker
CallBenchmark ==
  /\ pc = "metrics_done"
  /\ previous = None
  /\ "errors" \in DOMAIN result
  /\ Len(tickers) = 1
  /\ previous' = [result |-> result, metrics |-> metrics]
  /\ pc' = "b_cache_read"
  /\ i' = 1
  /\ all_data' = EmptyFrame
  /\ error_tickers' = <<>>
  /\ valid_tickers' = <<>>
  /\ locals' = NoLocals
  /\ result' = None
  /\ metrics' = None
  /\ UNCHANGED <<handler, now, other, backend, tickers, weights, upstream, raises, precision, benchmark, csv, use_cache,
                 db_fails, cache>>

\* the same request again (analyze_portfolio, then download_returns): the
\* caller keeps what the first call returned; the entry the first call wrote
\* is still there, fresh or older than CACHE_DURATION
CallAgain ==
  /\ pc = "returned"
  /\ previous = None
  /\ previous' = [result |-> result, metrics |-> metrics]
  /\ \E elapsed \in {0, CACHE_DURATION} : now' = now + elapsed
  /\ pc' = "cache_read"
  /\ i' = 1
  /\ all_data' = EmptyFrame
  /\ error_tickers' = <<>>
  /\ valid_tickers' = <<>>
  /\ locals' = NoLocals
  /\ result' = None
  /\ metrics' = None
  /\ UNCHANGED <<handler, other, backend, tickers, weights, upstream, raises, precision, benchmark, csv, use_cache,
                 db_fails, cache>>

\* ------------------------------------------- two calls at the same time
\* Two requests are served at once, each by its own thread with its own
\* database session; the table is what they share.  One call runs, the other
\* is suspended with its locals in `other`; the scheduler may switch between
\* any two database or download operations.  For that the cache accesses of
\* fetch_portfolio_data are taken one database operation at a time.

\* models.py line 14: id is the primary key, an INSERT of a taken id fails
PrimaryKeyTaken_Never(key) == FALSE
PrimaryKeyTaken(key) == \E row \in cache : row.id = key

\* lines 26-44 and 50-55: db.session.get and the age check
CacheLookup ==
  /\ pc = "cache_read"
  /\ LET cache_entry == SessionGet(PortfolioKey(tickers, weights))
     IN IF ~use_cache
        THEN /\ pc' = "download"
             /\ UNCHANGED <<use_cache, result>>
        ELSE IF "read" \in db_fails
        THEN /\ use_cache' = FALSE
             /\ pc' = "download"
             /\ UNCHANGED result
        ELSE IF cache_entry = None
        THEN /\ pc' = "download"
             /\ UNCHANGED <<use_cache, result>>
        ELSE IF CacheAgeRaises
        THEN /\ use_cache' = FALSE
             /\ pc' = "download"
             /\ UNCHANGED result
        ELSE IF CacheValid(cache_entry)
        THEN /\ result' = [df |-> ReadJsonTable(cache_entry.data.df_monthly_json),
                           errors |-> cache_entry.data.errors,
                           correlation |-> cache_entry.data.correlation_json]
             /\ pc' = "returned"
             /\ UNCHANGED use_cache
        ELSE /\ pc' = "cache_expired"
             /\ UNCHANGED <<use_cache, result>>
  /\ UNCHANGED <<handler, now, other, backend, tickers, weights, upstream, raises, precision, previous, benchmark, csv,
                 db_fails, cache, i, all_data, error_tickers, valid_tickers, locals, metrics>>

\* lines 45-55: db.session.delete(cache_entry) and commit, a DELETE of the row
\* with this id.  When the row is gone already the DELETE matches no row:
\* SQLAlchemy warns, or raises where warnings are errors.
CacheExpire ==
  /\ pc = "cache_expired"
  /\ pc' = "download"
  /\ IF "write" \in db_fails
     THEN /\ use_cache' = FALSE
          /\ UNCHANGED cache
     ELSE IF PrimaryKeyTaken(PortfolioKey(tickers, weights))
     THEN /\ cache' = {row \in cache : row.id # PortfolioKey(tickers, weights)}
          /\ UNCHANGED use_cache
     ELSE /\ use_cache' \in {TRUE, FALSE}
          /\ UNCHANGED cache
  /\ UNCHANGED <<handler, now, other, backend, tickers, weights, upstream, raises, precision, previous, benchmark, csv,
                 db_fails, i, all_data, error_tickers, valid_tickers, locals, result, metrics>>

\* lines 147-156: db.session.merge looks the id up and prepares an UPDATE of
\* the row it finds or an INSERT
CacheMerge ==
  /\ pc = "cache_write"
  /\ pc' = IF ~use_cache \/ "read" \in db_fails THEN "returned"
           ELSE IF PrimaryKeyTaken(PortfolioKey(tickers, weights)) THEN "merge_update"
           ELSE "merge_insert"
  /\ UNCHANGED <<handler, now, other, backend, tickers, weights, upstream, raises, precision, previous, benchmark, csv,
                 use_cache, db_fails, cache, i, all_data, error_tickers, valid_tickers, locals, result, metrics>>

\* lines 157-163: the commit.  An INSERT of an id taken in the meantime and an
\* UPDATE of a row deleted in the meantime raise; the except clause rolls
\* back and the result is returned.
CacheCommit ==
  /\ pc \in {"merge_insert", "merge_update"}
  /\ pc' = "returned"
  /\ LET key == PortfolioKey(tickers, weights)
         data == [df_monthly_json |-> ToJsonTable(result.df),
                  errors |-> result.errors,
                  correlation_json |-> result.correlation]
     IN IF "write" \in db_fails
        THEN UNCHANGED cache
        ELSE IF pc = "merge_insert"
        THEN IF PrimaryKeyTaken(key)
             THEN UNCHANGED cache
             ELSE cache' = cache \cup {[id |-> key, data |-> data, created_at |-> now]}
        ELSE IF SessionGet(key) = None
             THEN UNCHANGED cache
             ELSE cache' = SessionMerge(key, data)
  /\ UNCHANGED <<handler, now, other, backend, tickers, weights, upstream, raises, precision, previous, benchmark, csv,
                 use_cache, db_fails, i, all_data, error_tickers, valid_tickers, locals, result, metrics>>

\* the locals of a call of fetch_portfolio_data and what fails in its session
StartOfCall(fails) ==
  [pc |-> "cache_read", use_cache |-> TRUE, db_fails |-> fails, i |-> 1,
   all_data |-> EmptyFrame, error_tickers |-> <<>>, valid_tickers |-> <<>>,
   locals |-> NoLocals, result |-> None]

\* the scheduler suspends the running call and resumes the other
Switch ==
  /\ other # None
  /\ other' = [pc |-> pc, use_cache |-> use_cache, db_fails |-> db_fails, i |-> i,
               all_data |-> all_data, error_tickers |-> error_tickers,
               valid_tickers |-> valid_tickers, locals |-> locals, result |-> result]
  /\ pc' = other.pc
  /\ use_cache' = other.use_cache
  /\ db_fails' = other.db_fails
  /\ i' = other.i
  /\ all_data' = other.all_data
  /\ error_tickers' = other.error_tickers
  /\ valid_tickers' = other.valid_tickers
  /\ locals' = other.locals
  /\ result' = other.result
  /\ UNCHANGED <<handler, now, backend, tickers, weights, upstream, raises, precision, previous, benchmark, csv,
                 cache, metrics>>

\* ----------------------------------------------------- route handlers
\* portfolio_routes.py.  The handler's state: the validated request, the
\* statement it is at, its locals, the calls it made (arguments, and the
\* value returned once the call is back) and its response.
\* Weights are percentages: weights_normalized, the percentages over 100, and
\* the literal [1.0] are written in the same unit, as <<100>> for [1.0].
FullWeight == 100

\* ", ".join(map(str, error_tickers)) for lists of ticker strings
RECURSIVE Join(_)
Join(strs) ==
  IF strs = <<>> THEN <<>>
  ELSE IF Len(strs) = 1 THEN strs[1]
  ELSE strs[1] \o <<",", " ">> \o Join(Tail(strs))

\* jsonify({"error": message}), status
ErrorResponse(status, message) == [status |-> status, json |-> [error |-> message]]

\* lines 205-206 and 322: the failed tickers listed one after the other
FetchErrorMessage_FirstOnly(error_list) == <<"Could not fetch data for: ">> \o error_list[1]
FetchErrorMessage(error_list) == <<"Could not fetch data for: ">> \o Join(error_list)

\* lines 182-187: the first ticker whose text before " (" is the benchmark
BenchmarkIndex_NoMatch(tks, benchmark_ticker) == 0
BenchmarkIndex(tks, benchmark_ticker) ==
  LET hits == {k \in 1..Len(tks) : SplitParenHead(tks[k]) = benchmark_ticker}
  IN IF hits = {} THEN 0 ELSE SetMin(hits)

\* line 336
BenchmarkAmongTickers(tks, benchmark_ticker) == \E k \in 1..Len(tks) : tks[k] = benchmark_ticker

\* bool(current_app.config.get('SQLALCHEMY_DATABASE_URI'))
DatabaseConfigured == backend # "none"

\* the handler enters a fetch function: fresh locals, and a price source
\* free to fail on any download of this call
EnterFetch(tks, wts, entry) ==
  /\ tickers' = tks
  /\ weights' = wts
  /\ raises' \in [1..Len(tks) -> BOOLEAN]
  /\ use_cache' = DatabaseConfigured
  /\ pc' = entry
  /\ i' = 1
  /\ all_data' = EmptyFrame
  /\ error_tickers' = <<>>
  /\ valid_tickers' = <<>>
  /\ locals' = NoLocals
  /\ result' = None

\* the handler passes a table to calculate_metrics or generate_returns_csv
EnterWithTable(df, entry) ==
  /\ result' = [df |-> df]
  /\ pc' = entry
  /\ UNCHANGED <<tickers, weights, raises, use_cache, i, all_data, error_tickers,
                 valid_tickers, locals>>

\* the handler returns
Respond(h, response) ==
  /\ handler' = [h EXCEPT !.at = "done", !.response = response]
  /\ UNCHANGED <<tickers, weights, raises, use_cache, pc, i, all_data, error_tickers,
                 valid_tickers, locals, result>>

Calling(h, fn, args, at) ==
  [h EXCEPT !.at = at, !.calls = Append(@, [fn |-> fn, args |-> args])]
Back(h, returned) ==
  [h EXCEPT !.calls[Len(h.calls)] = [fn |-> @.fn, args |-> @.args, returned |-> returned]]

NewRequest(route, tks, wts, benchmark_ticker) ==
  [route |-> route, tickers |-> tks, weights_normalized |-> wts,
   benchmark_ticker |-> benchmark_ticker,
   benchmark_in_portfolio |-> IF route = "analyze_portfolio"
                              THEN BenchmarkIndex(tks, benchmark_ticker) # 0
                              ELSE BenchmarkAmongTickers(tks, benchmark_ticker),
   at |-> "fetch_portfolio_data",
   calls |-> <<[fn |-> "fetch_portfolio_data", args |-> <<tks, wts>>]>>,
   df_monthly |-> None, correlation_data |-> None, df_benchmark |-> None,
   metrics |-> None, benchmark_metrics |-> None, response |-> None]

GenericAnalyzeError == "An unexpected error occurred during portfolio analysis."
GenericCsvError == "An unexpected error occurred while generating the returns CSV."

\* analyze_portfolio lines 194-224 and download_returns lines 314-351: back
\* from the fetch of the portfolio
AfterPortfolioFetch ==
  /\ handler # None
  /\ handler.at = "fetch_portfolio_data"
  /\ pc \in {"returned", "raised"}
  /\ LET h == Back(handler, result)
         analyze == handler.route = "analyze_portfolio"
     IN IF pc = "raised"
        THEN /\ Respond(h, ErrorResponse(500, <<IF analyze THEN GenericAnalyzeError
                                                          ELSE GenericCsvError>>))
             /\ UNCHANGED <<metrics, benchmark, csv>>
        ELSE IF result.errors # <<>>
        THEN /\ Respond(h, ErrorResponse(400, FetchErrorMessage(result.errors)))
             /\ UNCHANGED <<metrics, benchmark, csv>>
        ELSE IF result.df = None \/ TableEmpty(result.df)
        THEN /\ Respond(h, ErrorResponse(400, <<"Could not retrieve portfolio data">>))
             /\ UNCHANGED <<metrics, benchmark, csv>>
        ELSE LET h1 == [h EXCEPT !.df_monthly = result.df,
                                 !.correlation_data = result.correlation]
             IN IF ~handler.benchmark_in_portfolio
                THEN /\ handler' = Calling(h1, "fetch_benchmark_data",
                                           <<handler.benchmark_ticker>>, "fetch_benchmark_data")
                     /\ EnterFetch(<<handler.benchmark_ticker>>, <<>>, "b_cache_read")
                     /\ UNCHANGED <<metrics, benchmark, csv>>
                ELSE IF analyze
                THEN /\ handler' = Calling(h1, "calculate_metrics", <<result.df>>,
                                           "calculate_metrics")
                     /\ EnterWithTable(result.df, "metrics")
                     /\ UNCHANGED <<metrics, benchmark, csv>>
                ELSE /\ handler' = Calling(h1, "fetch_portfolio_data",
                                           <<<<handler.benchmark_ticker>>, <<FullWeight>>>>,
                                           "fetch_benchmark_only")
                     /\ EnterFetch(<<handler.benchmark_ticker>>, <<FullWeight>>, "cache_read")
                     /\ UNCHANGED <<metrics, benchmark, csv>>
  /\ UNCHANGED <<now, other, backend, upstream, precision, previous, db_fails, cache>>

\* lines 218-221 return on a benchmark error, lines 342-344 only log it
BenchmarkErrorEnds_AnyRoute(route, benchmark_error) == benchmark_error # None
BenchmarkErrorEnds(route, benchmark_error) ==
  route = "analyze_portfolio" /\ benchmark_error # None

\* analyze_portfolio lines 215-224, download_returns lines 339-355: back from
\* fetch_benchmark_data
AfterBenchmarkFetch ==
  /\ handler # None
  /\ handler.at = "fetch_benchmark_data"
  /\ pc = "b_returned"
  /\ LET h == [Back(handler, result) EXCEPT !.df_benchmark = result.df]
     IN IF BenchmarkErrorEnds(handler.route, result.error)
        THEN /\ Respond(h, ErrorResponse(400,
                  <<"Failed to fetch benchmark data. Please try again later.">>))
             /\ UNCHANGED benchmark
        ELSE IF handler.route = "analyze_portfolio"
        THEN /\ handler' = Calling(h, "calculate_metrics", <<handler.df_monthly>>,
                                   "calculate_metrics")
             /\ EnterWithTable(handler.df_monthly, "metrics")
             /\ UNCHANGED benchmark
        ELSE /\ handler' = Calling(h, "generate_returns_csv",
                                   <<handler.df_monthly, result.df, handler.benchmark_ticker>>,
                                   "generate_returns_csv")
             /\ EnterWithTable(handler.df_monthly, "csv")
             /\ benchmark' = [df |-> result.df, ticker |-> handler.benchmark_ticker]
  /\ UNCHANGED <<now, other, backend, upstream, precision, previous, csv, db_fails, cache, metrics>>

\* analyze_portfolio lines 224-236: back from calculate_metrics(df_monthly),
\* which wrote its columns into the handler's table
AfterPortfolioMetrics ==
  /\ handler # None
  /\ handler.at = "calculate_metrics"
  /\ pc = "metrics_done"
  /\ LET h == [Back(handler, metrics) EXCEPT !.metrics = metrics, !.df_monthly = result.df]
     IN IF "raised" \in DOMAIN metrics
        THEN Respond(h, ErrorResponse(500, <<GenericAnalyzeError>>))
        ELSE IF handler.benchmark_in_portfolio
        THEN LET clean_ticker ==
                   SplitParenHead(handler.tickers[BenchmarkIndex(handler.tickers,
                                                                 handler.benchmark_ticker)])
             IN /\ handler' = Calling(h, "fetch_portfolio_data",
                                      <<<<clean_ticker>>, <<FullWeight>>>>, "fetch_benchmark_only")
                /\ EnterFetch(<<clean_ticker>>, <<FullWeight>>, "cache_read")
        ELSE IF handler.df_benchmark # None /\ ~TableEmpty(handler.df_benchmark)
        THEN /\ handler' = Calling(h, "calculate_metrics", <<handler.df_benchmark>>,
                                   "benchmark_metrics")
             /\ EnterWithTable(handler.df_benchmark, "metrics")
        ELSE Respond(h, [status |-> 200,
                         json |-> [success |-> TRUE, metrics |-> metrics.panel,
                                   benchmark_metrics |-> None,
                                   correlation_matrix |-> handler.correlation_data]])
  /\ UNCHANGED <<now, other, backend, upstream, precision, previous, benchmark, csv, db_fails, cache,
                 metrics>>

\* analyze_portfolio lines 229-234, download_returns lines 346-355: back from
\* fetch_portfolio_data([benchmark], [1.0], ...)
AfterBenchmarkOnlyFetch ==
  /\ handler # None
  /\ handler.at = "fetch_benchmark_only"
  /\ pc \in {"returned", "raised"}
  /\ LET h == Back(handler, result)
         analyze == handler.route = "analyze_portfolio"
     IN IF pc = "raised"
        THEN /\ Respond(h, ErrorResponse(500, <<IF analyze THEN GenericAnalyzeError
                                                          ELSE GenericCsvError>>))
             /\ UNCHANGED benchmark
        ELSE IF analyze
        THEN IF result.df # None /\ ~TableEmpty(result.df)
             THEN /\ handler' = Calling(h, "calculate_metrics", <<result.df>>, "benchmark_metrics")
                  /\ EnterWithTable(result.df, "metrics")
                  /\ UNCHANGED benchmark
             ELSE /\ Respond(h, [status |-> 200,
                                 json |-> [success |-> TRUE, metrics |-> handler.metrics.panel,
                                           benchmark_metrics |-> None,
                                           correlation_matrix |-> handler.correlation_data]])
                  /\ UNCHANGED benchmark
        ELSE /\ handler' = Calling([h EXCEPT !.df_benchmark = result.df], "generate_returns_csv",
                                   <<handler.df_monthly, result.df, handler.benchmark_ticker>>,
                                   "generate_returns_csv")
             /\ EnterWithTable(handler.df_monthly, "csv")
             /\ benchmark' = [df |-> result.df, ticker |-> handler.benchmark_ticker]
  /\ UNCHANGED <<now, other, backend, upstream, precision, previous, csv, db_fails, cache, metrics>>

\* analyze_portfolio lines 232-273: back from the benchmark's calculate_metrics
AfterBenchmarkMetrics ==
  /\ handler # None
  /\ handler.at = "benchmark_metrics"
  /\ pc = "metrics_done"
  /\ LET h == [Back(handler, metrics) EXCEPT !.benchmark_metrics = metrics]
     IN IF "raised" \in DOMAIN metrics
        THEN Respond(h, ErrorResponse(500, <<GenericAnalyzeError>>))
        ELSE Respond(h, [status |-> 200,
                         json |-> [success |-> TRUE, metrics |-> handler.metrics.panel,
                                   benchmark_metrics |-> metrics.panel,
                                   correlation_matrix |-> handler.correlation_data]])
  /\ UNCHANGED <<now, other, backend, upstream, precision, previous, benchmark, csv, db_fails, cache,
                 metrics>>

\* download_returns lines 355-367: back from generate_returns_csv
AfterReturnsCsv ==
  /\ handler # None
  /\ handler.at = "generate_returns_csv"
  /\ pc = "csv_done"
  /\ LET h == Back(handler, csv.returned)
     IN IF csv.returned = None
        THEN Respond(h, ErrorResponse(500, <<"Failed to generate CSV data.">>))
        ELSE Respond(h, [status |-> 200, mimetype |-> "text/csv",
                         body |-> csv.returned.buffer,
                         headers |-> [Content_disposition |->
                                        <<"attachment; filename=">> \o csv.returned.filename]])
  /\ UNCHANGED <<now, other, backend, upstream, precision, previous, benchmark, csv, db_fails, cache,
                 metrics>>

\* a later request reaches the same function some time after the first, with
\* arguments of its own; the table keeps its rows, and what fails in the
\* database and at the price source is open again
Elapsed == {0, CACHE_DURATION - 1, CACHE_DURATION}
CacheRequests ==
  {[tickers |-> <<TickerA>>, weights |-> <<FullWeight>>],
   [tickers |-> <<TickerA, TickerB>>, weights |-> <<30, 70>>],
   [tickers |-> <<TickerB, TickerA>>, weights |-> <<30, 70>>],
   [tickers |-> <<TickerB, TickerA>>, weights |-> <<70, 30>>]}
LaterCall ==
  /\ handler = None
  /\ previous = None
  /\ pc \in {"returned", "b_returned"}
  /\ previous' = [tickers |-> tickers, weights |-> weights, result |-> result,
                  cache |-> cache]
  /\ \E elapsed \in Elapsed : now' = now + elapsed
  /\ db_fails' \in {{}, {"read"}, {"write"}}
  /\ use_cache' = DatabaseConfigured
  /\ IF pc = "returned"
     THEN /\ \E request \in CacheRequests :
               /\ tickers' = request.tickers
               /\ weights' = request.weights
          /\ raises' = [k \in 1..Len(tickers') |-> FALSE]
          /\ pc' = "cache_read"
     ELSE /\ \E ticker \in Symbols : tickers' = <<ticker>>
          /\ raises' \in [1..1 -> BOOLEAN]
          /\ pc' = "b_cache_read"
          /\ UNCHANGED weights
  /\ i' = 1
  /\ all_data' = EmptyFrame
  /\ error_tickers' = <<>>
  /\ valid_tickers' = <<>>
  /\ locals' = NoLocals
  /\ result' = None
  /\ UNCHANGED <<handler, other, backend, upstream, precision, benchmark, csv, cache, metrics>>

\* ------------------------------------------------------------ inputs
SeqsOf(S, n) == UNION {[1..k -> S] : k \in 1..n}

\* price histories that either have no row at all or a row at price 1 on every day
FullSeries == [d \in Days |-> 1]
CoarseUpstreams == [Symbols -> {NoSeries, FullSeries}]

\* the symbols in a fixed order, for requests without labels or repetitions
SymbolOrder == <<TickerA, TickerB>>
PlainTickerLists ==
  {SubSeq(SymbolOrder, 1, k) :
     k \in 1..(IF MaxTickers < Len(SymbolOrder) THEN MaxTickers ELSE Len(SymbolOrder))}

\* generate_returns_csv not called
NoBenchmark == [df |-> None, ticker |-> <<>>]

InitCommon ==
  /\ handler = None
  /\ now = 0
  /\ other = None
  /\ backend = "postgresql"
  /\ previous = None
  /\ benchmark = NoBenchmark
  /\ csv = None
  /\ db_fails = {}
  /\ cache = {}
  /\ i = 1
  /\ all_data = EmptyFrame
  /\ error_tickers = <<>>
  /\ valid_tickers = <<>>
  /\ locals = NoLocals
  /\ metrics = None

\* the arithmetic idealised as exact
InitExact == InitCommon /\ precision = 0

\* fetch_portfolio_data on every request shape (labels, repetitions, zero
\* weights, failing downloads) over coarse price histories
InitRequests ==
  /\ InitExact
  /\ pc = "cache_read"
  /\ result = None
  /\ tickers \in SeqsOf(RawTickers, MaxTickers)
  /\ weights \in [1..Len(tickers) -> Weights]
  /\ raises \in [1..Len(tickers) -> BOOLEAN]
  /\ upstream \in CoarseUpstreams
  /\ use_cache = TRUE

\* fetch_portfolio_data on requests of bare symbols with positive weights,
\* longer lists, each download free to fail
InitPlain ==
  /\ InitExact
  /\ pc = "cache_read"
  /\ result = None
  /\ tickers \in SeqsOf(Symbols, PlainTickers)
  /\ weights \in [1..Len(tickers) -> Weights \ {0}]
  /\ raises \in [1..Len(tickers) -> BOOLEAN]
  /\ upstream \in CoarseUpstreams
  /\ use_cache = TRUE

\* fetch_portfolio_data on plain requests with distinct positive weights,
\* over every price history
InitPortfolioPrices ==
  /\ InitExact
  /\ pc = "cache_read"
  /\ result = None
  /\ tickers \in PlainTickerLists
  /\ weights \in {w \in [1..Len(tickers) -> Weights \ {0}] :
                    \A j, k \in 1..Len(tickers) : j # k => w[j] # w[k]}
  /\ raises = [k \in 1..Len(tickers) |-> FALSE]
  /\ upstream \in [Symbols -> Series]
  /\ use_cache = TRUE

\* fetch_benchmark_data on every price history of the benchmark
InitBenchmark ==
  /\ InitExact
  /\ pc = "b_cache_read"
  /\ result = None
  /\ tickers \in {<<t>> : t \in {TickerA, TickerALabel}}
  /\ weights = <<>>
  /\ raises \in [1..1 -> BOOLEAN]
  /\ upstream \in {u \in [Symbols -> Series] : \A sym \in Symbols \ {TickerA} : u[sym] = NoSeries}
  /\ use_cache = TRUE

\* calculate_metrics on None and on four families of tables with rows at
\* successive month ends: every Drawdown column over DrawdownValues, every
\* Portfolio Value column over TableValues (with and without the two other
\* columns), every Monthly Return column over ReturnValues, and tables just
\* under and just over the rolling window; also tables whose rows all carry
\* the same date
DrawdownValues == {NaN, Rat(-1, 5), Zero}
TableValues == {NaN, Zero, One, Rat(6, 5)}
ReturnValues == {NaN, Rat(-1, 2), Rat(-1, 4), Rat(1, 2)}
MetricsTable(n, dd) ==
  [index |-> [t \in 1..n |-> MonthEnd(t)], cols |-> <<>>, prices |-> <<>>,
   columns |-> ValueColumns,
   pv |-> [t \in 1..n |-> One], mr |-> [t \in 1..n |-> Zero], dd |-> dd]
ValueTable(n, pv) ==
  [MetricsTable(n, [t \in 1..n |-> Zero]) EXCEPT !.pv = pv]
ReturnTable(n, mr) ==
  [MetricsTable(n, [t \in 1..n |-> Zero]) EXCEPT !.mr = mr]
ValueOnlyTable(n, pv) ==
  [MetricsTable(n, <<>>) EXCEPT !.columns = {"Portfolio Value"}, !.mr = <<>>, !.pv = pv]
SameDayTable(n, pv) ==
  [ValueTable(n, pv) EXCEPT !.index = [t \in 1..n |-> MonthEnd(1)]]
LongTables ==
  {ReturnTable(n, [t \in 1..n |-> IF t % 2 = 0 THEN r ELSE q]) :
     n \in {RollingWindow, RollingWindow + 1}, r \in {Zero, Rat(1, 2)}, q \in {Zero, Rat(-1, 2)}}
MetricsTables ==
  {None}
  \cup UNION {{MetricsTable(n, dd) : dd \in [1..n -> DrawdownValues]} : n \in 0..MaxRows}
  \cup UNION {{ValueTable(n, pv) : pv \in [1..n -> TableValues]} : n \in 1..MaxRows}
  \cup UNION {{ReturnTable(n, mr) : mr \in [1..n -> ReturnValues]} : n \in 1..MaxRows}
  \cup UNION {{ValueOnlyTable(n, pv) : pv \in [1..n -> TableValues]} : n \in 0..(MaxRows - 1)}
  \cup UNION {{SameDayTable(n, pv) : pv \in [1..n -> TableValues]} : n \in 2..3}
  \cup LongTables

InitMetrics ==
  /\ InitExact
  /\ pc = "metrics"
  /\ tickers = <<>>
  /\ weights = <<>>
  /\ raises = <<>>
  /\ upstream = [sym \in Symbols |-> NoSeries]
  /\ use_cache = FALSE
  /\ result \in {[df |-> df] : df \in MetricsTables}

\* a portfolio of the single ticker A, then the benchmark A, over every
\* history of A with prices in RoundTripPrices, in float arithmetic
RoundTripPrices == {1, 3}
InitRoundTrip ==
  /\ InitCommon
  /\ precision = SignificandBits
  /\ pc = "cache_read"
  /\ result = None
  /\ tickers = <<TickerA>>
  /\ weights \in [1..1 -> Weights \ {0}]
  /\ raises \in [1..1 -> BOOLEAN]
  /\ upstream \in {u \in [Symbols -> [Days -> {0} \cup RoundTripPrices]] :
                     \A sym \in Symbols \ {TickerA} : u[sym] = NoSeries}
  /\ use_cache = TRUE

\* fetch_portfolio_data twice on plain requests with distinct positive
\* weights, over every history of A beside a B that is flat or absent
InitRepeat ==
  /\ InitExact
  /\ pc = "cache_read"
  /\ result = None
  /\ tickers \in PlainTickerLists
  /\ weights \in {w \in [1..Len(tickers) -> Weights \ {0}] :
                    \A j, k \in 1..Len(tickers) : j # k => w[j] # w[k]}
  /\ raises = [k \in 1..Len(tickers) |-> FALSE]
  /\ upstream \in {u \in [Symbols -> Series] :
                     \A sym \in Symbols \ {TickerA} : u[sym] \in {NoSeries, FullSeries}}
  /\ use_cache = TRUE

\* a table with a Drawdown column only
DrawdownOnlyTable(n) ==
  [MetricsTable(n, [t \in 1..n |-> Zero]) EXCEPT !.columns = {"Drawdown"},
                                                  !.mr = <<>>, !.pv = <<>>]

\* the tables a caller passes as df_portfolio / df_monthly ...
PortfolioTables ==
  {None}
  \cup UNION {{ValueOnlyTable(n, pv) : pv \in [1..n -> TableValues]} : n \in 0..CsvRows}
  \cup UNION {{ReturnTable(n, mr) : mr \in [1..n -> ReturnValues]} : n \in 1..CsvRows}
  \cup {DrawdownOnlyTable(n) : n \in 1..CsvRows}

\* ... and as df_benchmark
BenchmarkTables ==
  {None, ValueOnlyTable(1, <<One>>)}
  \cup UNION {{ReturnTable(n, mr) : mr \in [1..n -> ReturnValues]} : n \in 0..(CsvRows - 1)}

\* calculate_metrics (both versions) on a table, or generate_returns_csv on a
\* table, a benchmark table and the benchmark's ticker
InitTables ==
  /\ handler = None
  /\ now = 0
  /\ other = None
  /\ backend = "postgresql"
  /\ previous = None
  /\ csv = None
  /\ precision = 0
  /\ db_fails = {}
  /\ cache = {}
  /\ i = 1
  /\ all_data = EmptyFrame
  /\ error_tickers = <<>>
  /\ valid_tickers = <<>>
  /\ locals = NoLocals
  /\ metrics = None
  /\ tickers = <<>>
  /\ weights = <<>>
  /\ raises = <<>>
  /\ upstream = [sym \in Symbols |-> NoSeries]
  /\ use_cache = FALSE
  /\ result \in {[df |-> df] : df \in PortfolioTables}
  /\ \/ pc = "metrics" /\ benchmark = NoBenchmark
     \/ pc = "csv" /\ benchmark \in {[df |-> b, ticker |-> t] :
                                        b \in BenchmarkTables, t \in {TickerA, TickerB}}

\* a validated request (portfolio_routes.py lines 80-119): bare symbols,
\* positive weights that sum to 100
RequestWeights == {30, 50, 70, FullWeight}
ValidatedWeights(n) == {w \in [1..n -> RequestWeights] : ISum(w) = FullWeight}

\* a history that starts at 1 and is at 2 from the second day on
RisingSeries == [d \in Days |-> IF d = 1 THEN 1 ELSE 2]
HandlerUpstreams == [Symbols -> {NoSeries, FullSeries, RisingSeries}]

\* one request to /analyze_portfolio or /download_returns, with a database
\* (its table empty) or without
InitServed ==
  /\ now = 0
  /\ other = None
  /\ backend \in {"none", "postgresql"}
  /\ previous = None
  /\ benchmark = NoBenchmark
  /\ csv = None
  /\ db_fails = {}
  /\ cache = {}
  /\ precision = 0
  /\ i = 1
  /\ all_data = EmptyFrame
  /\ error_tickers = <<>>
  /\ valid_tickers = <<>>
  /\ locals = NoLocals
  /\ metrics = None
  /\ result = None
  /\ pc = "cache_read"
  /\ use_cache = DatabaseConfigured
  /\ tickers \in SeqsOf(Symbols, MaxTickers)
  /\ weights \in ValidatedWeights(Len(tickers))
  /\ raises \in [1..Len(tickers) -> BOOLEAN]
  /\ upstream \in HandlerUpstreams
  /\ handler \in {NewRequest(route, tickers, weights, b) :
                    route \in {"analyze_portfolio", "download_returns"}, b \in Symbols}

\* download_returns as tests/test_routes.py lines 298-339 run it, the fetch
\* functions replaced by stubs that hand back tables of any shape: the
\* handler is about to call generate_returns_csv
StubPortfolioTables == {DrawdownOnlyTable(1), ReturnTable(2, <<Zero, Rat(1, 2)>>)}
StubBenchmarks == {[df |-> None, error |-> [msg |-> "Error fetching benchmark"]],
                   [df |-> ReturnTable(2, <<Zero, Rat(-1, 4)>>), error |-> None]}
InitStubbed ==
  /\ now = 0
  /\ other = None
  /\ backend = "none"
  /\ previous = None
  /\ csv = None
  /\ db_fails = {}
  /\ cache = {}
  /\ precision = 0
  /\ i = 1
  /\ all_data = EmptyFrame
  /\ error_tickers = <<>>
  /\ valid_tickers = <<>>
  /\ locals = NoLocals
  /\ metrics = None
  /\ pc = "csv"
  /\ use_cache = FALSE
  /\ tickers = <<TickerB>>
  /\ weights = <<>>
  /\ raises = <<FALSE>>
  /\ upstream = [sym \in Symbols |-> NoSeries]
  /\ \E df \in StubPortfolioTables, b \in StubBenchmarks :
       LET h0 == NewRequest("download_returns", <<TickerA>>, <<FullWeight>>, TickerB)
           h1 == [Back(h0, [df |-> df, errors |-> <<>>, correlation |-> None])
                    EXCEPT !.df_monthly = df]
           h2 == [Back(Calling(h1, "fetch_benchmark_data", <<TickerB>>, "fetch_benchmark_data"), b)
                    EXCEPT !.df_benchmark = b.df]
       IN /\ handler = Calling(h2, "generate_returns_csv", <<df, b.df, TickerB>>,
                               "generate_returns_csv")
          /\ result = [df |-> df]
          /\ benchmark = [df |-> b.df, ticker |-> TickerB]

InitHandlers == InitServed \/ InitStubbed

\* histories that tell the symbols apart: A rises, B is flat, and either may
\* have no rows
CacheUpstreams ==
  {[sym \in Symbols |-> IF sym = TickerA THEN a ELSE b] :
     a \in {RisingSeries, NoSeries}, b \in {FullSeries, NoSeries}}

\* an entry written CACHE_DURATION ago for other prices
StaleEntry(key) ==
  [id |-> key,
   data |-> [df_monthly_json |-> ToJsonTable(ReturnTable(2, <<Zero, Zero>>)),
             errors |-> <<>>, correlation_json |-> None],
   created_at |-> 0]

\* two calls of fetch_portfolio_data with the same arguments start together,
\* the key missing from the table or holding an expired entry
InitInterleave ==
  /\ handler = None
  /\ now = CACHE_DURATION
  /\ backend \in {"sqlite", "postgresql"}
  /\ previous = None
  /\ benchmark = NoBenchmark
  /\ csv = None
  /\ precision = 0
  /\ metrics = None
  /\ upstream \in CacheUpstreams
  /\ \E request \in {r \in CacheRequests : r.tickers[1] = TickerA} :
       /\ tickers = request.tickers
       /\ weights = request.weights
  /\ raises = [k \in 1..Len(tickers) |-> FALSE]
  /\ cache \in {{}, {StaleEntry(PortfolioKey(tickers, weights))}}
  /\ \E mine, theirs \in {{}, {"read"}, {"write"}} :
       /\ other = StartOfCall(theirs)
       /\ pc = StartOfCall(mine).pc
       /\ use_cache = StartOfCall(mine).use_cache
       /\ db_fails = StartOfCall(mine).db_fails
       /\ i = StartOfCall(mine).i
       /\ all_data = StartOfCall(mine).all_data
       /\ error_tickers = StartOfCall(mine).error_tickers
       /\ valid_tickers = StartOfCall(mine).valid_tickers
       /\ locals = StartOfCall(mine).locals
       /\ result = StartOfCall(mine).result

\* a first call of fetch_portfolio_data or fetch_benchmark_data on an empty
\* table portfolio_cache, in SQLite or PostgreSQL
InitCache ==
  /\ handler = None
  /\ now = 0
  /\ other = None
  /\ backend \in {"sqlite", "postgresql"}
  /\ previous = None
  /\ benchmark = NoBenchmark
  /\ csv = None
  /\ db_fails \in {{}, {"read"}, {"write"}}
  /\ cache = {}
  /\ precision = 0
  /\ i = 1
  /\ all_data = EmptyFrame
  /\ error_tickers = <<>>
  /\ valid_tickers = <<>>
  /\ locals = NoLocals
  /\ metrics = None
  /\ result = None
  /\ use_cache = TRUE
  /\ upstream \in CacheUpstreams
  /\ \/ /\ pc = "cache_read"
        /\ \E request \in CacheRequests :
             /\ tickers = request.tickers
             /\ weights = request.weights
        /\ raises = [k \in 1..Len(tickers) |-> FALSE]
     \/ /\ pc = "b_cache_read"
        /\ tickers \in {<<ticker>> : ticker \in Symbols}
        /\ weights = <<>>
        /\ raises \in [1..1 -> BOOLEAN]

\* -------------------------------------------------------- specifications
Init == InitRequests

NextPortfolio ==
  \/ CacheRead
  \/ FetchTicker
  \/ ReturnNoData
  \/ Process
  \/ CacheWrite

Next == NextPortfolio

\* fetch_portfolio_data over request shapes
Spec == Init /\ [][Next]_vars

NextPrices ==
  \/ NextPortfolio
  \/ BenchmarkCacheRead
  \/ BenchmarkFetch
  \/ BenchmarkCacheWrite

InitPrices == InitPortfolioPrices \/ InitBenchmark

\* fetch_portfolio_data and fetch_benchmark_data over price histories
SpecPrices == InitPrices /\ [][NextPrices]_vars

\* fetch_portfolio_data over plain requests of up to PlainTickers tickers
SpecPlain == InitPlain /\ [][NextPortfolio]_vars

NextMetrics ==
  \/ CalculateMetrics
  \/ LegacyCalculateMetrics

\* calculate_metrics (both versions) over monthly tables
SpecMetrics == InitMetrics /\ [][NextMetrics]_vars

NextRoundTrip ==
  \/ NextPrices
  \/ PassToMetrics
  \/ CalculateMetrics
  \/ CallBenchmark

\* the metrics of a one-ticker portfolio, then of the same ticker as benchmark
SpecRoundTrip == InitRoundTrip /\ [][NextRoundTrip]_vars

NextRepeat ==
  \/ NextPortfolio
  \/ CallAgain

\* fetch_portfolio_data called twice with the same arguments
SpecRepeat == InitRepeat /\ [][NextRepeat]_vars

NextTables ==
  \/ CalculateMetrics
  \/ LegacyCalculateMetrics
  \/ GenerateReturnsCsv

\* the functions that take tables from their caller
SpecTables == InitTables /\ [][NextTables]_vars

NextHandlers ==
  \/ NextPrices
  \/ CalculateMetrics
  \/ GenerateReturnsCsv
  \/ AfterPortfolioFetch
  \/ AfterBenchmarkFetch
  \/ AfterPortfolioMetrics
  \/ AfterBenchmarkOnlyFetch
  \/ AfterBenchmarkMetrics
  \/ AfterReturnsCsv

NextCache ==
  \/ NextPrices
  \/ LaterCall

\* two calls of a fetch function, one after the other, on a shared table
SpecCache == InitCache /\ [][NextCache]_vars

NextInterleave ==
  \/ CacheLookup
  \/ CacheExpire
  \/ FetchTicker
  \/ ReturnNoData
  \/ Process
  \/ CacheMerge
  \/ CacheCommit
  \/ Switch

\* two calls of fetch_portfolio_data for one key, interleaved
SpecInterleave == InitInterleave /\ [][NextInterleave]_vars

\* the two routes, each serving one validated request
SpecHandlers == InitHandlers /\ [][NextHandlers]_vars

\* =================================================================== claims
\* What the request and the price source say, independently of the loop:
\* the k-th requested ticker survives when its cleaned name is not empty, its
\* download does not raise and the source has rows for it.
Survives(k) ==
  /\ CleanTicker(tickers[k]) # <<>>
  /\ ~raises[k]
  /\ ~SeriesEmpty(upstream[CleanTicker(tickers[k])])

SurvivingPositions == Positions(Len(tickers), LAMBDA k : Survives(k))
FailedPositions == Positions(Len(tickers), LAMBDA k : ~Survives(k))
SurvivingSum == ISum([u \in 1..Len(SurvivingPositions) |-> weights[SurvivingPositions[u]]])
AllFail == SurvivingPositions = <<>>
SomeFail == FailedPositions # <<>>

Range(seq) == {seq[k] : k \in 1..Len(seq)}

\* the processing section of fetch_portfolio_data has computed its weights
WeightsComputed == pc \in {"cache_write", "returned", "raised"} /\ locals # NoLocals

\* ... and has gone on to build the table it returns
WeightsApplied == pc \in {"cache_write", "returned"} /\ locals # NoLocals /\ result.df # None

\* C1 (as claimed): whenever a ticker returned data and the surviving
\* tickers' requested weights have a positive sum, the weight applied to each
\* surviving ticker is its requested weight divided by the surviving sum, and
\* the applied weights sum to 1.
C1_AppliedWeightsAreRequestedOverSum ==
  (WeightsApplied /\ SurvivingSum > 0) =>
    /\ Len(locals.valid_weights_normalized) = Len(SurvivingPositions)
    /\ \A u \in 1..Len(SurvivingPositions) :
         locals.valid_weights_normalized[u] = Rat(weights[SurvivingPositions[u]], SurvivingSum)
    /\ RSum(locals.valid_weights_normalized) = One

\* C2 (as claimed): the symbols that reach aggregation are exactly the
\* requested symbols that are not in the returned errors list, with one
\* normalized weight per price column.
RequestedNotInErrors ==
  ({CleanTicker(tickers[k]) : k \in 1..Len(tickers)} \ {<<>>})
    \ {CleanTicker(e) : e \in Range(error_tickers)}

C2_AggregatedAreRequestedMinusErrors ==
  WeightsComputed =>
    /\ Len(locals.valid_weights_normalized) = Len(locals.price_columns)
    /\ Range(locals.price_columns) = RequestedNotInErrors

\* C3 (as claimed): when some but not all requested tickers fail, the call
\* does not abort: it returns a table computed from the surviving tickers with
\* renormalized weights, and the errors list holds exactly the failed tickers.
C3_PartialFailureReturnsTable ==
  (pc \in {"returned", "raised"} /\ SomeFail /\ ~AllFail) =>
    /\ pc = "returned"
    /\ result.df # None
    /\ result.errors = [u \in 1..Len(FailedPositions) |-> tickers[FailedPositions[u]]]
    /\ locals.price_columns =
         [u \in 1..Len(SurvivingPositions) |-> CleanTicker(tickers[SurvivingPositions[u]])]
    /\ SurvivingSum > 0 =>
         locals.valid_weights_normalized =
           [u \in 1..Len(SurvivingPositions) |-> Rat(weights[SurvivingPositions[u]], SurvivingSum)]

\* C4: when every requested ticker fails, the call returns
\* (None, errors, None) with errors listing all requested tickers, raises
\* nothing and writes nothing to the cache.
C4_TotalFailureReturnsNone ==
  AllFail =>
    /\ pc # "raised"
    /\ cache = {}
    /\ pc = "returned" =>
         result = [df |-> None, errors |-> tickers, correlation |-> None]

\* a total failure with an unloadable name and a raising download, returned
C4_Witness ==
  /\ pc = "returned"
  /\ AllFail
  /\ Len(tickers) = 2
  /\ \E k \in 1..2 : CleanTicker(tickers[k]) = <<>>
  /\ \E k \in 1..2 : CleanTicker(tickers[k]) # <<>> /\ raises[k]
  /\ use_cache

\* C5 (as claimed): if the weights of the surviving tickers sum to 0 the
\* computation fails instead of returning a monthly table.
C5_ZeroWeightSumFails ==
  (pc = "returned" /\ ~AllFail /\ SurvivingSum = 0) => result.df = None

\* the monthly table (if any) that a finished fetch hands to its caller
PortfolioReturned == pc \in {"cache_write", "returned"} /\ result.df # None
BenchmarkReturned == pc \in {"b_cache_write", "b_returned"} /\ result.df # None

\* position of a date in a sequence of dates, 0 when absent
DatePos(index, d) ==
  LET K == {u \in 1..Len(index) : index[u] = d}
  IN IF K = {} THEN 0 ELSE SetMin(K)

\* the k-th symbol's own monthly return in row u of the monthly prices,
\* counted as 0 where it is missing
SymbolReturnOrZero(k, u) ==
  LET r == PctChange(locals.df_monthly.vals[k])[u]
  IN IF IsNaN(r) THEN Zero ELSE r

\* C6 (as claimed): in every month of the aggregated table the portfolio
\* return is the sum over the surviving symbols of weight * return, a symbol
\* whose return is missing that month contributing 0 while the others still
\* contribute.
C6_MonthlyReturnIsWeightedSum ==
  (PortfolioReturned /\ locals # NoLocals) =>
    \A t \in 1..Len(result.df.index) :
      LET u == DatePos(locals.df_monthly.index, result.df.index[t])
      IN u # 0 =>
           result.df.mr[t] =
             RSum([k \in 1..Len(locals.price_columns) |->
                     RMul(locals.valid_weights_normalized[k], SymbolReturnOrZero(k, u))])

\* C7 (as claimed): when no month has a return for every weighted symbol the
\* call fails; it does not return a table.
C7_NoReturnMonthsFails ==
  (pc = "returned" /\ locals # NoLocals /\ Len(locals.df_monthly_returns.index) = 0) =>
    result.df = None

\* C8: in every returned monthly table the first Portfolio Value is 1, each
\* later value is the previous value times (1 + the row's Monthly Return), and
\* Drawdown is value / running maximum - 1, never above 0.
RunningMax(pv, t) ==
  CHOOSE m \in {pv[u] : u \in 1..t} : \A u \in 1..t : RLe(pv[u], m)

ValueCurveHolds(df) ==
  /\ Len(df.index) >= 1
  /\ Len(df.pv) = Len(df.index) /\ Len(df.mr) = Len(df.index) /\ Len(df.dd) = Len(df.index)
  /\ df.pv[1] = One
  /\ \A t \in 2..Len(df.pv) : df.pv[t] = RMul(df.pv[t - 1], RAdd(One, df.mr[t]))
  /\ \A t \in 1..Len(df.pv) :
       /\ df.dd[t] = RSub(RDiv(df.pv[t], RunningMax(df.pv, t)), One)
       /\ RLe(df.dd[t], Zero)

C9_FirstPriceMonthDropped ==
  (PortfolioReturned /\ locals # NoLocals) =>
    /\ result.df.index[1] = locals.df_monthly.index[1] - 1
    /\ result.df.pv[1] = One /\ result.df.mr[1] = Zero
    /\ DatePos(result.df.index, locals.df_monthly.index[1]) = 0
    /\ Len(MonthlyReturnsUsed(result.df)) = Len(locals.df_monthly.index) - 1

\* C10: max_drawdown_duration is the length of the longest run of
\* consecutive rows with Drawdown < 0, a run open at the last row counted, a
\* NaN row ending a run, "0 months" when no row is below 0.
BelowZero(dd, t) == ~IsNaN(dd[t]) /\ RLt(dd[t], Zero)

LongestRun(dd) ==
  LET runs == {<<a, b>> \in (1..Len(dd)) \X (1..Len(dd)) :
                 a <= b /\ \A t \in a..b : BelowZero(dd, t)}
  IN IF runs = {} THEN 0 ELSE SetMax({r[2] - r[1] + 1 : r \in runs})

C10_DurationIsLongestRun ==
  (/\ pc \in {"metrics_done", "legacy_metrics_done"}
   /\ ~TooShort(result.df)
   /\ "Drawdown" \in result.df.columns
   /\ "panel" \in DOMAIN metrics) =>
    metrics.panel.max_drawdown_duration =
      (IF LongestRun(result.df.dd) = 0 THEN "0 months"
       ELSE ToString(LongestRun(result.df.dd)) \o " months")

\* a drop in row 2 recovered by row 5 reported as "3 months" by the current scan
C10_Witness ==
  /\ pc = "metrics_done"
  /\ ~TooShort(result.df)
  /\ result.df.dd = <<Zero, Rat(-1, 5), Rat(-1, 5), Rat(-1, 5), Zero>>
  /\ metrics.panel.max_drawdown_duration = "3 months"

\* the panel of the current calculate_metrics is in metrics
PanelReturned == pc = "metrics_done" /\ "panel" \in DOMAIN metrics
ScalarFields == DOMAIN NotAvailablePanel \ {"annual_returns"}

\* C11 (as claimed): for a table that is None, empty or shorter than 2 rows
\* every field of the returned panel is 'N/A'.
C11_ShortTableAllNotAvailable ==
  (PanelReturned /\ TooShort(result.df)) =>
    \A f \in ScalarFields : metrics.panel[f] = "N/A"

\* C12 (as claimed): with fewer than 12 monthly returns rolling_volatility and
\* rolling_return are 'N/A'.
C12_RollingNotAvailableUnderWindow ==
  (PanelReturned /\ ~TooShort(result.df) /\ Len(metrics.monthly_returns) < 12) =>
    /\ metrics.panel.rolling_volatility = "N/A"
    /\ metrics.panel.rolling_return = "N/A"

\* C13 (as claimed): no scalar field of the panel and no annual return is the
\* rendering of a NaN or of an infinity.
NonFiniteRenderings == {"nan", "inf", "-inf", "nan%", "inf%", "-inf%"}

C13_NoNonFiniteRendering ==
  PanelReturned =>
    /\ \A f \in ScalarFields : metrics.panel[f] \notin NonFiniteRenderings
    /\ \A year \in DOMAIN metrics.panel.annual_returns :
         metrics.panel.annual_returns[year] \notin NonFiniteRenderings

\* C14: a table of 2 rows or more gets a panel, with cagr 0 when the years
\* are not positive, total_return 0 when the first value is 0, sharpe_ratio 0
\* unless the returns have a positive deviation, sortino_ratio 0 unless the
\* negative returns have one, calmar_ratio 0 unless some drawdown is below 0.
\* A series has a positive sample deviation when two of its finite values differ
\* and none of its values is infinite.
HasSpread(col) ==
  /\ \E j, k \in 1..Len(col) : ~IsNaN(col[j]) /\ ~IsNaN(col[k]) /\ col[j] # col[k]
  /\ \A k \in 1..Len(col) : ~IsInf(col[k])
NegativeEntries(col) == {k \in 1..Len(col) : RLt(col[k], Zero)}
HasDownsideSpread(col) ==
  /\ \E j, k \in NegativeEntries(col) : col[j] # col[k]
  /\ \A k \in NegativeEntries(col) : ~IsInf(col[k])
AllSameDate(df) == \A t \in 1..Len(df.index) : df.index[t] = df.index[1]

C14_DegenerateDenominatorsAbsorbed ==
  (pc = "metrics_done" /\ ~TooShort(result.df)) =>
    /\ "panel" \in DOMAIN metrics
    /\ AllSameDate(result.df) => metrics.panel.cagr = "0.00%"
    /\ result.df.pv[1] = Zero => metrics.panel.total_return = "0.00%"
    /\ ~HasSpread(Tail(result.df.mr)) => metrics.panel.sharpe_ratio = "0.00"
    /\ ~HasDownsideSpread(Tail(result.df.mr)) => metrics.panel.sortino_ratio = "0.00"
    /\ (\A t \in 1..Len(result.df.dd) : ~RLt(result.df.dd[t], Zero)) =>
         metrics.panel.calmar_ratio = "0.00"

\* a table of flat values with a single negative month among returns that vary
C14_Witness ==
  /\ pc = "metrics_done"
  /\ ~TooShort(result.df)
  /\ \A t \in 1..Len(result.df.pv) : result.df.pv[t] = One
  /\ Cardinality(NegativeEntries(Tail(result.df.mr))) = 1
  /\ HasSpread(Tail(result.df.mr))
  /\ metrics.panel.sortino_ratio = "0.00"

\* C15: on a table that starts at the baseline 1.0 and holds positive finite
\* values, annual_returns has one entry per calendar year of the rows after
\* the first, the rendering of (value at the year's last row) / (value of the
\* row just before the year's first row) - 1; the ratios of the years multiply
\* up to last value / first value.
PositiveFromBaseline(df) ==
  /\ df.pv[1] = One
  /\ \A t \in 1..Len(df.pv) : ~IsInf(df.pv[t]) /\ RLt(Zero, df.pv[t])
  /\ \A t \in 2..Len(df.index) : df.index[t - 1] < df.index[t]

YearGrowth(df, year) ==
  LET rows == {t \in 2..Len(df.index) : YearOf(df.index[t]) = year}
  IN RDiv(df.pv[SetMax(rows)], df.pv[SetMin(rows) - 1])

RECURSIVE GrowthProduct(_, _)
GrowthProduct(df, years) ==
  IF years = {} THEN One
  ELSE LET y == CHOOSE z \in years : TRUE
       IN RMul(YearGrowth(df, y), GrowthProduct(df, years \ {y}))

C15_AnnualReturnsFromPrecedingRow ==
  (PanelReturned /\ ~TooShort(result.df) /\ PositiveFromBaseline(result.df)) =>
    LET df == result.df
        years == {YearOf(df.index[t]) : t \in 2..Len(df.index)}
    IN /\ DOMAIN metrics.panel.annual_returns = years
       /\ \A y \in years :
            metrics.panel.annual_returns[y] = FormatPct2(RSub(YearGrowth(df, y), One))
       /\ GrowthProduct(df, years) = RDiv(df.pv[Len(df.pv)], df.pv[1])

\* a table over three calendar years whose value changes inside a year
C15_Witness ==
  /\ PanelReturned
  /\ ~TooShort(result.df)
  /\ PositiveFromBaseline(result.df)
  /\ Cardinality(DOMAIN metrics.panel.annual_returns) >= 3
  /\ \E t \in 2..Len(result.df.pv) :
       /\ YearOf(result.df.index[t]) = YearOf(result.df.index[t - 1])
       /\ result.df.pv[t] # result.df.pv[t - 1]

\* the caller has the panels of both calls
BothPanels ==
  /\ pc = "metrics_done"
  /\ previous # None
  /\ "error" \in DOMAIN result

\* C16 (as claimed): for every price history of a single ticker, the panel
\* calculate_metrics gives for the table of the one-ticker portfolio equals
\* the panel it gives for the benchmark table built from the same prices.
C16_RoundTripPanelsEqual ==
  BothPanels => metrics.panel = previous.metrics.panel

\* the second of two identical calls has returned
SecondReturned == pc = "returned" /\ previous # None

\* C17 (as claimed): the second of two calls of fetch_portfolio_data with the
\* same arguments and the same upstream prices returns the monthly table, the
\* error list and the correlation data the first call returned, whether it
\* recomputes them or reads the entry the first call cached.
C17_SecondCallReturnsTheSame ==
  SecondReturned => result = previous.result

\* fetch_portfolio_data has returned correlation data
CorrelationReturned ==
  /\ pc = "returned"
  /\ "correlation" \in DOMAIN result
  /\ result.correlation # None

\* C19 (as claimed): correlation data returned for two or more symbols is a
\* square matrix over the returned ticker list, symmetric, with every diagonal
\* entry equal to 1.
C19_CorrelationSquareSymmetricUnitDiagonal ==
  (CorrelationReturned /\ Len(result.correlation.tickers) >= 2) =>
    LET c == result.correlation
        K == 1..Len(c.tickers)
    IN /\ DOMAIN c.matrix = K
       /\ \A j \in K : DOMAIN c.matrix[j] = K
       /\ \A j, k \in K : c.matrix[j][k] = c.matrix[k][j]
       /\ \A k \in K : c.matrix[k][k] = One

\* C20 (as claimed): when fewer than two symbols have monthly return data,
\* the correlation output of a call that returns a table is None.
C20_NoMatrixUnderTwoSymbols ==
  (pc = "returned" /\ locals # NoLocals /\ result.df # None
   /\ Cardinality(Range(locals.df_monthly_returns.cols)) < 2) =>
    result.correlation = None

\* C18 (as claimed): a call of calculate_metrics or generate_returns_csv
\* leaves the tables passed to it as they were: same index, same columns,
\* same values.
C18_CallsLeaveTablesUnchanged ==
  [][pc' \in {"metrics_done", "legacy_metrics_done", "csv_done"} =>
       (result' = result /\ benchmark' = benchmark)]_vars

\* generate_returns_csv has returned
CsvReturned == pc = "csv_done"
BufferReturned == CsvReturned /\ csv.returned # None

\* the portfolio table has nothing to make returns from (the call adds a
\* Monthly Return column only beside a Portfolio Value column, so this reads
\* the same before and after the call)
NoPortfolioData ==
  \/ result.df = None
  \/ Len(result.df.index) = 0
  \/ (result.df.columns = {} /\ result.df.cols = <<>>)
  \/ ("Monthly Return" \notin result.df.columns /\ "Portfolio Value" \notin result.df.columns)

BenchmarkReturnOn(t) ==
  LET K == {u \in 1..Len(benchmark.df.index) : benchmark.df.index[u] = result.df.index[t]}
  IN IF K = {} THEN NaN ELSE benchmark.df.mr[CHOOSE u \in K : \A v \in K : u <= v]

\* the compounded return, in percent, of the returns in rows T of a column,
\* a NaN counting as 0
RECURSIVE ZeroFilledGrowth(_, _)
ZeroFilledGrowth(ret(_), T) ==
  IF T = {} THEN One
  ELSE LET t == CHOOSE x \in T : \A y \in T : x <= y
           r == IF IsNaN(ret(t)) THEN Zero ELSE ret(t)
       IN RMul(RAdd(One, r), ZeroFilledGrowth(ret, T \ {t}))

AnnualPercent(ret(_), T) == RMul(RSub(ZeroFilledGrowth(ret, T), One), <<100, 1>>)

\* C22: in the output of generate_returns_csv a missing or NaN monthly return,
\* of the portfolio or of the benchmark (a portfolio month absent from the
\* benchmark table included), is written 0.00 and counts as 0 in the year's
\* compounded return; no monthly or annual cell is a NaN.
C22_MissingReturnsAreZero ==
  BufferReturned =>
    LET monthly == csv.returned.buffer[1]
        annual == csv.returned.buffer[2]
        N == 1..Len(result.df.index)
        with_benchmark == Len(monthly.header) = 5
        rows_of(y) == {t \in N : YearOf(result.df.index[t]) = y}
        finite(ret(_), T) == \A t \in T : ~IsInf(ret(t))
        portfolio(t) == result.df.mr[t]
    IN /\ \A t \in N :
            /\ IsNaN(portfolio(t)) => monthly.rows[t][4] = "0.00"
            /\ monthly.rows[t][4] \notin {"nan", "N/A"}
            /\ with_benchmark =>
                 /\ IsNaN(BenchmarkReturnOn(t)) => monthly.rows[t][5] = "0.00"
                 /\ monthly.rows[t][5] \notin {"nan", "N/A"}
       /\ \A u \in 1..Len(annual.rows) :
            LET y == annual.rows[u][1].year
            IN /\ finite(portfolio, rows_of(y)) =>
                    annual.rows[u][2] = [float |-> AnnualPercent(portfolio, rows_of(y))]
               /\ "float" \in DOMAIN annual.rows[u][2] => ~IsNaN(annual.rows[u][2].float)
               /\ with_benchmark =>
                    /\ finite(BenchmarkReturnOn, rows_of(y)) =>
                         annual.rows[u][3]
                           = [float |-> AnnualPercent(BenchmarkReturnOn, rows_of(y))]
                    /\ "float" \in DOMAIN annual.rows[u][3] =>
                         ~IsNaN(annual.rows[u][3].float)

C22_Witness ==
  /\ BufferReturned
  /\ Len(csv.returned.buffer[1].header) = 5
  /\ Len(result.df.index) = 3
  /\ IsNaN(result.df.mr[2])
  /\ result.df.mr[3] = Rat(1, 2)
  /\ Len(benchmark.df.index) = 2
  /\ IsNaN(benchmark.df.mr[1])
  /\ benchmark.df.mr[2] = Rat(-1, 4)

\* C23: the monthly block has the Benchmark_Return column and the annual
\* block the Benchmark_Ann_Return column exactly when a non-empty benchmark
\* table with a Monthly Return column is supplied; every row has a cell for
\* each column of its header.
C23_BenchmarkColumnsTogether ==
  BufferReturned =>
    LET monthly == csv.returned.buffer[1]
        annual == csv.returned.buffer[2]
        supplied == /\ benchmark.df # None
                    /\ Len(benchmark.df.index) > 0
                    /\ "Monthly Return" \in benchmark.df.columns
    IN /\ ("Benchmark_Return" \in Range(monthly.header)) <=> supplied
       /\ ("Benchmark_Ann_Return" \in Range(annual.header)) <=> supplied
       /\ \A t \in 1..Len(monthly.rows) : Len(monthly.rows[t]) = Len(monthly.header)
       /\ \A u \in 1..Len(annual.rows) : Len(annual.rows[u]) = Len(annual.header)

C23_Witness ==
  /\ BufferReturned
  /\ "Benchmark_Return" \in Range(csv.returned.buffer[1].header)
  /\ "Benchmark_Ann_Return" \in Range(csv.returned.buffer[2].header)
  /\ Len(csv.returned.buffer[1].rows) = 3
  /\ Len(benchmark.df.index) = 1

\* ---------------------------------------------------------- the routes
\* the call the handler made for the requested portfolio is back
PortfolioFetchBack ==
  /\ handler # None
  /\ "returned" \in DOMAIN handler.calls[1]
  /\ "errors" \in DOMAIN handler.calls[1].returned

\* C24: in both handlers, once the fetch_portfolio_data call for the
\* requested portfolio has returned a non-empty error list, the response is
\* 400 with the error 'Could not fetch data for: ' followed by the failed
\* tickers joined by ', ', and that call stays the handler's only call: no
\* benchmark fetch, no calculate_metrics, no generate_returns_csv.
C24_FetchErrorsEndTheRequest ==
  (PortfolioFetchBack /\ handler.calls[1].returned.errors # <<>>) =>
    LET failed == handler.calls[1].returned.errors
        listed == IF Len(failed) = 1 THEN failed[1]
                  ELSE failed[1] \o <<",", " ">> \o Join(Tail(failed))
    IN /\ handler.at = "done"
       /\ handler.response = [status |-> 400,
                              json |-> [error |-> <<"Could not fetch data for: ">> \o listed]]
       /\ Len(handler.calls) = 1

\* /download_returns for two tickers without data: both are listed
C24_Witness ==
  /\ PortfolioFetchBack
  /\ handler.route = "download_returns"
  /\ handler.calls[1].returned.errors = <<TickerB, TickerA>>
  /\ handler.response.status = 400

\* /download_returns: the portfolio fetch came back without error tickers and
\* with a table, and the benchmark fetch (fetch_benchmark_data, or the
\* single-ticker fetch_portfolio_data for a constituent) came back failed
OnlyBenchmarkFailed ==
  /\ PortfolioFetchBack
  /\ handler.route = "download_returns"
  /\ handler.calls[1].returned.errors = <<>>
  /\ Len(handler.calls) >= 2
  /\ "returned" \in DOMAIN handler.calls[2]
  /\ LET back == handler.calls[2].returned
     IN IF handler.calls[2].fn = "fetch_benchmark_data"
        THEN back.error # None
        ELSE "errors" \in DOMAIN back /\ back.errors # <<>>

\* the handler is done and its last call was generate_returns_csv
CsvCallBack ==
  /\ handler # None
  /\ handler.at = "done"
  /\ handler.calls[Len(handler.calls)].fn = "generate_returns_csv"

\* C25: in download_returns, when only the benchmark fetch fails the handler
\* goes on to call generate_returns_csv with the portfolio's table and no
\* benchmark table, and the response to a generated CSV is 200 text/csv;
\* whenever generate_returns_csv returns None the response is 500 with the
\* error 'Failed to generate CSV data.'.
C25_BenchmarkFailureStillDownloads ==
  /\ OnlyBenchmarkFailed =>
       /\ Len(handler.calls) = 3
       /\ handler.calls[3].fn = "generate_returns_csv"
       /\ handler.calls[3].args =
            <<handler.calls[1].returned.df, None, handler.benchmark_ticker>>
  /\ CsvCallBack =>
       LET returned == handler.calls[Len(handler.calls)].returned
       IN IF returned = None
          THEN handler.response = [status |-> 500,
                                   json |-> [error |-> <<"Failed to generate CSV data.">>]]
          ELSE /\ handler.response.status = 200
               /\ handler.response.mimetype = "text/csv"
               /\ handler.response.body = returned.buffer

\* a served request whose benchmark has no prices: the CSV is sent
C25_Witness ==
  /\ OnlyBenchmarkFailed
  /\ CsvCallBack
  /\ backend = "postgresql"
  /\ handler.calls[2].fn = "fetch_benchmark_data"
  /\ handler.calls[2].returned.error.msg = "No data found for benchmark ticker: "
  /\ handler.response.status = 200
  /\ "Benchmark_Return" \notin Range(handler.response.body[1].header)

\* the calls of the handler to fn, by position in its list of calls
CallsTo(fn) == {k \in 1..Len(handler.calls) : handler.calls[k].fn = fn}

\* /analyze_portfolio, the benchmark among the requested tickers or not
AnalyzeConstituent ==
  /\ handler # None
  /\ handler.route = "analyze_portfolio"
  /\ \E k \in 1..Len(handler.tickers) : handler.tickers[k] = handler.benchmark_ticker
AnalyzeOutsider ==
  /\ handler # None
  /\ handler.route = "analyze_portfolio"
  /\ \A k \in 1..Len(handler.tickers) : handler.tickers[k] # handler.benchmark_ticker

\* the portfolio fetch came back with a table and no error tickers
PortfolioFetched ==
  /\ PortfolioFetchBack
  /\ handler.calls[1].returned.errors = <<>>
  /\ handler.calls[1].returned.df # None

\* C26: in analyze_portfolio with the benchmark among the portfolio's
\* tickers, fetch_benchmark_data is never called, and benchmark metrics in
\* the response are what calculate_metrics returned for the table that
\* fetch_portfolio_data([benchmark], [1.0]) returned.  With the benchmark
\* not among them, past a successful portfolio fetch fetch_benchmark_data is
\* called exactly once (and never more than once before), and a benchmark
\* error ends the request with 400 and without any call of
\* calculate_metrics.
C26_BenchmarkSourceByMembership ==
  /\ AnalyzeConstituent =>
       /\ CallsTo("fetch_benchmark_data") = {}
       /\ (handler.at = "done" /\ handler.response.status = 200
             /\ handler.response.json.benchmark_metrics # None) =>
            /\ Len(handler.calls) = 4
            /\ handler.calls[3] = [fn |-> "fetch_portfolio_data",
                                   args |-> <<<<handler.benchmark_ticker>>, <<FullWeight>>>>,
                                   returned |-> handler.calls[3].returned]
            /\ handler.calls[4].fn = "calculate_metrics"
            /\ handler.calls[4].args = <<handler.calls[3].returned.df>>
            /\ handler.response.json.benchmark_metrics = handler.calls[4].returned.panel
  /\ AnalyzeOutsider =>
       /\ Cardinality(CallsTo("fetch_benchmark_data")) <= 1
       /\ PortfolioFetched =>
            /\ CallsTo("fetch_benchmark_data") = {2}
            /\ handler.calls[2].args = <<handler.benchmark_ticker>>
            /\ ("returned" \in DOMAIN handler.calls[2] /\ handler.calls[2].returned.error # None) =>
                 /\ handler.at = "done"
                 /\ handler.response.status = 400
                 /\ CallsTo("calculate_metrics") = {}

\* portfolio <<A, B>> with benchmark B: the response carries B's metrics
C26_Witness ==
  /\ AnalyzeConstituent
  /\ handler.tickers = <<TickerA, TickerB>>
  /\ handler.benchmark_ticker = TickerB
  /\ handler.at = "done"
  /\ handler.response.status = 200
  /\ handler.response.json.benchmark_metrics # None
  /\ handler.response.json.benchmark_metrics # handler.response.json.metrics

\* ------------------------------------------------------------ the cache
\* the second of two calls of fetch_portfolio_data returned what it read in
\* the table
SecondCallHit ==
  /\ previous # None
  /\ "cache" \in DOMAIN previous
  /\ pc = "returned"
  /\ i = 1
  /\ result.df # None

\* the weight of each ticker: the pairs (ticker, weight) with their positions
\* forgotten
Assignment(tks, wts) ==
  {<<tks[k], wts[k], Cardinality({j \in 1..k : tks[j] = tks[k] /\ wts[j] = wts[k]})>> :
     k \in 1..Len(tks)}

\* C27: a cache hit of fetch_portfolio_data returns a result computed for
\* the ticker-to-weight assignment of the request, and two requests whose
\* tickers and weights pair up differently have different cache keys.
C27_HitsAreForTheSameAssignment ==
  (previous # None /\ "cache" \in DOMAIN previous /\ pc \in {"cache_read", "download", "returned"}) =>
    /\ SecondCallHit =>
         Assignment(previous.tickers, previous.weights) = Assignment(tickers, weights)
    /\ PortfolioKey(previous.tickers, previous.weights) = PortfolioKey(tickers, weights) =>
         Assignment(previous.tickers, previous.weights) = Assignment(tickers, weights)

\* the cache key of the call in progress
CallKey ==
  IF pc \in {"b_cache_read", "b_fetch", "b_cache_write", "b_returned"}
  THEN BenchmarkKey(tickers[1])
  ELSE PortfolioKey(tickers, weights)

\* C28: while no database operation fails, a step of fetch_portfolio_data or
\* fetch_benchmark_data from the cache lookup straight to the return (the
\* price source not contacted) is taken only on an entry younger than
\* CACHE_DURATION; an entry found at the age of CACHE_DURATION or older is
\* not returned and is gone from the table when the live fetch starts; and
\* the step that ends a successful computation leaves under the key an
\* entry younger than CACHE_DURATION.
C28_EntriesServedOnlyWhileFresh ==
  [][db_fails = {} =>
       LET found == SessionGet(CallKey)
       IN /\ (pc \in {"cache_read", "b_cache_read"} /\ pc' \in {"returned", "b_returned"}) =>
               /\ found # None
               /\ now - found.created_at < CACHE_DURATION
          /\ (/\ pc \in {"cache_read", "b_cache_read"}
              /\ found # None
              /\ now - found.created_at >= CACHE_DURATION) =>
               /\ pc' \in {"download", "b_fetch"}
               /\ \A row \in cache' : row.id # CallKey
          /\ (pc \in {"cache_write", "b_cache_write"} /\ result.df # None) =>
               \E row \in cache' : /\ row.id = CallKey
                                    /\ now - row.created_at < CACHE_DURATION]_vars

\* the rows written by fetch_benchmark_data
BenchmarkRows(rows) == {row \in rows : row.id.prefix = "benchmark"}

\* C29: every benchmark row of the table has error None and a non-empty
\* table, and a step adds or changes a benchmark row only when the fetch of
\* the call in progress ended with a non-empty table and no error.
C29_NoFailedBenchmarkCached ==
  /\ [](\A row \in BenchmarkRows(cache) :
          /\ row.data.error = None
          /\ Len(ReadJsonTable(row.data.df_json).index) > 0)
  /\ [][BenchmarkRows(cache') \ BenchmarkRows(cache) # {} =>
          /\ pc = "b_cache_write"
          /\ result.error = None
          /\ result.df # None
          /\ Len(result.df.index) > 0]_vars

\* a second call for another benchmark fails beside the row of the first
C29_Witness ==
  /\ previous # None
  /\ pc = "b_returned"
  /\ result.error # None
  /\ result.df = None
  /\ BenchmarkRows(cache) # {}
  /\ \A row \in cache : row.id # BenchmarkKey(tickers[1])


\* the positions of a call after its result is computed
AfterCompute == {"cache_write", "merge_insert", "merge_update", "returned"}

\* C30: with two calls for one key interleaved, no call raises; a database
\* failure leaves the computed result of the call as it is, and two calls
\* that both computed return the same result; a call whose cache read failed
\* changes no row afterwards; the table never holds two rows for one key.
C30_CacheFailuresAbsorbed ==
  /\ [](/\ pc # "raised"
        /\ other.pc # "raised"
        /\ \A row1, row2 \in cache : row1.id = row2.id => row1 = row2
        /\ (/\ pc = "returned"
            /\ other.pc = "returned"
            /\ i > 1
            /\ other.i > 1) => result = other.result)
  /\ [][other' = other =>
          /\ (pc \in AfterCompute => pc' \in AfterCompute /\ result' = result)
          /\ (~use_cache => cache' = cache /\ ~use_cache')]_vars

\* both calls found the expired entry and returned; the read of one failed in
\* its delete, the other wrote the one row of the table
C30_Witness ==
  /\ backend = "postgresql"
  /\ pc = "returned"
  /\ other.pc = "returned"
  /\ i > 1
  /\ other.i > 1
  /\ result.df # None
  /\ ~use_cache
  /\ other.use_cache
  /\ "read" \notin db_fails
  /\ \E row \in cache : row.id = PortfolioKey(tickers, weights) /\ row.created_at = now
  /\ Cardinality(cache) = 1

====================================================================
